---- MODULE Spec2Model ----
(***************************************************************************)
(* Model of the SQL static review engines of server/lib:                   *)
(*   sql_rule_engine.py    (main: ten detectors, per-line aggregation)     *)
(*   sqlStaticAnalyzer.py  (analyse: four detectors, flat issue list)      *)
(*                                                                         *)
(* A text is a sequence of symbols.  A symbol is one unit of source text:  *)
(* a single character ("/", "*", "-", "'", a blank, a newline, ...) or a   *)
(* maximal word (a maximal run of \w characters such as DELETE or T_USER). *)
(* Offsets are 1-based here: offset p of the model is Python index p - 1,  *)
(* and a span <<a, b>> is the half-open Python span [a-1, b-1).            *)
(***************************************************************************)
EXTENDS Integers, Sequences, FiniteSets, TLC

VARIABLES sql, pc, masked, issues, events, report, variant

vars == <<sql, pc, masked, issues, events, report, variant>>

NL == "\n"
SP == " "
SQ == "'"
DQ == "\""

\* One code point of the CJK ranges of CJK_RE; a single symbol of a text.
CJK == "U+4E2D"

\* The backtick character; a single symbol of a text.
BQ == "U+0060"

\* The characters of a string, one symbol each.
Chars(str) == [i \in 1..Len(str) |-> SubSeq(str, i, i)]

\* ---------------------------------------------------------------- bounds
\* Longest character-level text given to the masker.
MaskLen == 5

\* Most _add_issue calls made on one issues list by the aggregator's own check.
MaxCalls == 3

\* ------------------------------------------------------------- utilities
SetMin(S) == CHOOSE x \in S : \A y \in S : x <= y

SetMax(S) == CHOOSE x \in S : \A y \in S : y <= x

\* text[a-1:b-1] of Python, for 1-based half-open <<a, b>>
Slice(text, a, b) == SubSeq(text, a, b - 1)

\* ------------------------------------------------------ position helpers
\* sql.count("\n", 0, idx) + 1 and idx - (last_nl + 1) + 1
IdxToLineCol(text, p) ==
    LET nls == {i \in 1..(p - 1) : i <= Len(text) /\ text[i] = NL}
        lastNl == IF nls = {} THEN 0 ELSE SetMax(nls)
    IN  <<Cardinality(nls) + 1, p - lastNl>>

\* max_len of _line_snippet
SnippetMaxLen == 240

RECURSIVE RStripCR(_)
RStripCR(text) ==
    IF text # <<>> /\ text[Len(text)] = "\r"
    THEN RStripCR(SubSeq(text, 1, Len(text) - 1))
    ELSE text

\* the line that holds offset p, cut to max_len symbols
LineSnippet(text, p) ==
    LET before == {i \in 1..(p - 1) : i <= Len(text) /\ text[i] = NL}
        after == {i \in p..Len(text) : i >= 1 /\ text[i] = NL}
        start == IF before = {} THEN 1 ELSE SetMax(before) + 1
        end == IF after = {} THEN Len(text) + 1 ELSE SetMin(after)
        snippet == RStripCR(Slice(text, start, end))
    IN  IF Len(snippet) > SnippetMaxLen
        THEN SubSeq(snippet, 1, SnippetMaxLen) \o <<"...">>
        ELSE snippet

\* ------------------------------------------------------ issue aggregator
\* The record _add_issue creates for the first issue of a line.
NewRecord(rule_id, message, severity, obj_name, line, col, snippet, evidence, recommendation) ==
    [rule_id |-> rule_id, rule_ids |-> <<rule_id>>,
     severity |-> severity, severity_levels |-> <<severity>>,
     message |-> message, issues |-> <<message>>,
     object |-> obj_name, line |-> line, column |-> <<col>>,
     snippet |-> snippet,
     evidence |-> evidence, evidence_list |-> <<evidence>>,
     recommendation |-> <<recommendation>>, fixed_code |-> ""]

\* Mutant of AppendToRecord: the recommendation array is not extended.
AppendToRecordNoRecommendation(rec, rule_id, message, severity, col, evidence, recommendation) ==
    [rec EXCEPT !.rule_ids = Append(@, rule_id),
                !.severity_levels = Append(@, severity),
                !.column = Append(@, col),
                !.issues = Append(@, message),
                !.evidence_list = Append(@, evidence)]

\* existing.setdefault(...).append(...) for every parallel array
AppendToRecord(rec, rule_id, message, severity, col, evidence, recommendation) ==
    [rec EXCEPT !.rule_ids = Append(@, rule_id),
                !.severity_levels = Append(@, severity),
                !.column = Append(@, col),
                !.issues = Append(@, message),
                !.recommendation = Append(@, recommendation),
                !.evidence_list = Append(@, evidence)]

\* Mutant of SyncLegacyFields: the single-value fields follow the latest issue.
SyncLegacyFieldsToLatest(rec) ==
    [rec EXCEPT !.rule_id = rec.rule_ids[Len(rec.rule_ids)],
                !.severity = rec.severity_levels[Len(rec.severity_levels)],
                !.message = rec.issues[Len(rec.issues)],
                !.evidence = rec.evidence_list[Len(rec.evidence_list)]]

\* "Keep single-value fallbacks in sync for legacy consumers"
SyncLegacyFields(rec) ==
    [rec EXCEPT !.rule_id = rec.rule_ids[1],
                !.severity = rec.severity_levels[1],
                !.message = rec.issues[1],
                !.evidence = rec.evidence_list[1]]

\* Mutant of AddIssue: a new record is put before the records of later lines.
AddIssueSortedByLine(iss, rule_id, message, text, pos, evidence, severity, obj_name, recommendation) ==
    LET lc == IdxToLineCol(text, pos)
        snippet == LineSnippet(text, pos)
        resolved == IF evidence = <<>> THEN snippet ELSE evidence
        same == {k \in 1..Len(iss) : iss[k].line = lc[1]}
        before == Cardinality({k \in 1..Len(iss) : iss[k].line < lc[1]})
    IN  IF same = {}
        THEN SubSeq(iss, 1, before)
             \o <<NewRecord(rule_id, message, severity, obj_name, lc[1], lc[2],
                            snippet, resolved, recommendation)>>
             \o SubSeq(iss, before + 1, Len(iss))
        ELSE [iss EXCEPT ![SetMin(same)] =
                 SyncLegacyFields(AppendToRecord(@, rule_id, message, severity, lc[2],
                                                 resolved, recommendation))]

\* _add_issue of sql_rule_engine: one record per source line
AddIssue(iss, rule_id, message, text, pos, evidence, severity, obj_name, recommendation) ==
    LET lc == IdxToLineCol(text, pos)
        snippet == LineSnippet(text, pos)
        resolved == IF evidence = <<>> THEN snippet ELSE evidence
        same == {k \in 1..Len(iss) : iss[k].line = lc[1]}
    IN  IF same = {}
        THEN Append(iss, NewRecord(rule_id, message, severity, obj_name, lc[1], lc[2],
                                   snippet, resolved, recommendation))
        ELSE [iss EXCEPT ![SetMin(same)] =
                 SyncLegacyFields(AppendToRecord(@, rule_id, message, severity, lc[2],
                                                 resolved, recommendation))]

\* One issue as a detector hands it to _add_issue (the issue-event stream).
Event(rule_id, message, text, pos, evidence, severity, obj_name, recommendation) ==
    [rule_id |-> rule_id, message |-> message, pos |-> pos,
     line |-> IdxToLineCol(text, pos)[1], col |-> IdxToLineCol(text, pos)[2],
     evidence |-> IF evidence = <<>> THEN LineSnippet(text, pos) ELSE evidence,
     severity |-> severity, object |-> obj_name, recommendation |-> recommendation]

\* ----------------------------------------- masking comments and strings
\* Mutant of MaskSpanWithSpaces: a newline inside the span is blanked too.
MaskSpanBlankingNewlines(text, start, end) ==
    [i \in 1..Len(text) |-> IF start <= i /\ i < end THEN SP ELSE text[i]]

MaskSpanWithSpaces(text, start, end) ==
    [i \in 1..Len(text) |->
        IF start <= i /\ i < end
        THEN (IF text[i] = NL THEN NL ELSE SP)
        ELSE text[i]]

\* for match in finditer(...): masked = _mask_span_with_spaces(masked, ...)
RECURSIVE MaskSpans(_, _)
MaskSpans(text, spans) ==
    IF spans = <<>> THEN text
    ELSE MaskSpans(MaskSpanWithSpaces(text, spans[1][1], spans[1][2]), Tail(spans))

\* finditer of /\*.*?\*/ (DOTALL) from offset p: the non-overlapping matches
RECURSIVE BlockCommentMatches(_, _)
BlockCommentMatches(text, p) ==
    LET Closers(o) == {j \in (o + 2)..(Len(text) - 1) : text[j] = "*" /\ text[j + 1] = "/"}
        openers == {o \in p..(Len(text) - 1) :
                       text[o] = "/" /\ text[o + 1] = "*" /\ Closers(o) # {}}
    IN  IF openers = {} THEN <<>>
        ELSE <<<<SetMin(openers), SetMin(Closers(SetMin(openers))) + 2>>>>
             \o BlockCommentMatches(text, SetMin(Closers(SetMin(openers))) + 2)

\* finditer of --.*?$ (MULTILINE) from offset p
RECURSIVE LineCommentMatches(_, _)
LineCommentMatches(text, p) ==
    LET openers == {o \in p..(Len(text) - 1) : text[o] = "-" /\ text[o + 1] = "-"}
        nls == {j \in (SetMin(openers) + 2)..Len(text) : text[j] = NL}
        end == IF nls = {} THEN Len(text) + 1 ELSE SetMin(nls)
    IN  IF openers = {} THEN <<>>
        ELSE <<<<SetMin(openers), end>>>> \o LineCommentMatches(text, end)

\* The end (exclusive) of the match of q(?:qq|[^q])*q that opens at the
\* quote before offset i, or 0 when there is none.  The loop is greedy and
\* prefers the pair qq; when it runs into the end of the text the regex
\* backtracks to the last pair it took and closes on that pair's first quote.
RECURSIVE QuoteEnd(_, _, _, _)
QuoteEnd(text, q, i, lastPair) ==
    LET quotes == {j \in i..Len(text) : text[j] = q}
        j == SetMin(quotes)
    IN  IF quotes = {}
        THEN (IF lastPair = 0 THEN 0 ELSE lastPair + 1)
        ELSE IF j + 1 <= Len(text) /\ text[j + 1] = q
        THEN QuoteEnd(text, q, j + 2, j)
        ELSE j + 1

\* finditer of '(?:''|[^'])*' (or the double-quote form) from offset p
RECURSIVE QuotedMatches(_, _, _)
QuotedMatches(text, q, p) ==
    LET openers == {o \in p..Len(text) : text[o] = q /\ QuoteEnd(text, q, o + 1, 0) # 0}
        end == QuoteEnd(text, q, SetMin(openers) + 1, 0)
    IN  IF openers = {} THEN <<>>
        ELSE <<<<SetMin(openers), end>>>> \o QuotedMatches(text, q, end)

MaskBlockComments(text) == MaskSpans(text, BlockCommentMatches(text, 1))

MaskLineComments(text) == MaskSpans(text, LineCommentMatches(text, 1))

MaskQuoted(text, q) == MaskSpans(text, QuotedMatches(text, q, 1))

MaskCommentsAndStrings(text) ==
    MaskQuoted(MaskQuoted(MaskLineComments(MaskBlockComments(text)), SQ), DQ)

\* ------------------------------------------------------ character classes
LowerLetters == Chars("abcdefghijklmnopqrstuvwxyz")

UpperLetters == Chars("ABCDEFGHIJKLMNOPQRSTUVWXYZ")

Digits == Chars("0123456789")

Range(seq) == {seq[i] : i \in 1..Len(seq)}

\* str.upper(), one character
UpperChar(c) ==
    IF c \in Range(LowerLetters)
    THEN UpperLetters[CHOOSE i \in 1..26 : LowerLetters[i] = c]
    ELSE c

Upper(text) == [i \in 1..Len(text) |-> UpperChar(text[i])]

\* \w of a str pattern: letters, digits, underscore (CJK letters included)
IsWordChar(c) == c \in Range(LowerLetters) \cup Range(UpperLetters) \cup Range(Digits) \cup {"_", CJK}

\* \s, and the characters str.strip() removes
IsSpace(c) == c \in {SP, NL, "\t", "\r"}

\* the name class of TABLE_RE, VIEW_RE, PROC_RE, FUNC_RE: backtick, double
\* quote, brackets, \w, dot, $, #, @
NameChars == {BQ, DQ, "[", "]", ".", "$", "#", "@"}

\* a character of a name class: \w or one of the class's punctuation characters
IsNameChar(c, punct) == IsWordChar(c) \/ c \in punct

\* \b at offset p: exactly one of the characters before and at p is a word character
WordBoundary(text, p) ==
    (p - 1 >= 1 /\ p - 1 <= Len(text) /\ IsWordChar(text[p - 1]))
        # (p >= 1 /\ p <= Len(text) /\ IsWordChar(text[p]))

\* an upper-case literal at offset p, under re.IGNORECASE
MatchLit(text, p, lit) ==
    /\ p >= 1
    /\ p + Len(lit) - 1 <= Len(text)
    /\ \A k \in 1..Len(lit) : UpperChar(text[p + k - 1]) = lit[k]

\* the least element of a set of offsets, or a default when there is none
FirstOr(S, default) == IF S = {} THEN default ELSE SetMin(S)

\* the first offset >= p that holds no whitespace
SkipSpaces(text, p) ==
    IF p > Len(text) THEN p
    ELSE FirstOr({i \in p..Len(text) : ~IsSpace(text[i])}, Len(text) + 1)

\* WORD\s+WORD\s+ ... from offset p: the offset after it, or 0
RECURSIVE WordsThenSpaces(_, _, _)
WordsThenSpaces(text, p, words) ==
    IF words = <<>> THEN p
    ELSE IF /\ MatchLit(text, p, words[1])
            /\ p + Len(words[1]) <= Len(text)
            /\ IsSpace(text[p + Len(words[1])])
    THEN WordsThenSpaces(text, SkipSpaces(text, p + Len(words[1])), Tail(words))
    ELSE 0

\* the end (exclusive) of the greedy run of name characters at offset p
NameRunEnd(text, p, punct) ==
    IF p > Len(text) THEN p
    ELSE FirstOr({i \in p..Len(text) : ~IsNameChar(text[i], punct)}, Len(text) + 1)

\* first offset >= p where pattern `lit` stands as a word (\bLIT\b), or 0
FindWord(text, p, lit) ==
    FirstOr({i \in p..(Len(text) - Len(lit) + 1) :
                MatchLit(text, i, lit) /\ WordBoundary(text, i)
                /\ WordBoundary(text, i + Len(lit))}, 0)

\* str.find(sub, start): first offset >= p where the characters of sub stand, or 0
FindSub(text, p, sub) ==
    FirstOr({i \in p..(Len(text) - Len(sub) + 1) :
                \A k \in 1..Len(sub) : text[i + k - 1] = sub[k]}, 0)

\* str.strip()
LStrip(text) == SubSeq(text, SkipSpaces(text, 1), Len(text))

RStrip(text) ==
    LET others == {i \in 1..Len(text) : ~IsSpace(text[i])}
    IN  IF others = {} THEN <<>> ELSE SubSeq(text, 1, SetMax(others))

Strip(text) == LStrip(RStrip(text))

StartsWith(text, prefix) ==
    Len(text) >= Len(prefix) /\ SubSeq(text, 1, Len(prefix)) = prefix

EndsWith(text, suffix) ==
    Len(text) >= Len(suffix)
        /\ SubSeq(text, Len(text) - Len(suffix) + 1, Len(text)) = suffix

\* ---------------------------------------------------------- token helpers
\* token.strip of backticks and double quotes
RECURSIVE StripQuoteChars(_)
StripQuoteChars(token) ==
    IF token # <<>> /\ token[1] \in {BQ, DQ} THEN StripQuoteChars(Tail(token))
    ELSE IF token # <<>> /\ token[Len(token)] \in {BQ, DQ}
    THEN StripQuoteChars(SubSeq(token, 1, Len(token) - 1))
    ELSE token

\* token.split(".")[-1]
LastSegment(token) ==
    LET dots == {i \in 1..Len(token) : token[i] = "."}
    IN  IF dots = {} THEN token ELSE SubSeq(token, SetMax(dots) + 1, Len(token))

\* token[1:-1] of a token that starts with [ and ends with ]
Unbracket(token) ==
    IF token # <<>> /\ token[1] = "[" /\ token[Len(token)] = "]"
    THEN SubSeq(token, 2, Len(token) - 1)
    ELSE token

LastIdentifier(name_token) == StripQuoteChars(Unbracket(LastSegment(Strip(name_token))))

\* ------------------------------------------------- the CREATE ... regexes
\* \bCREATE\s+TABLE\s+(?:IF\s+NOT\s+EXISTS\s+)?(name)   kind "TABLE"
\* \bCREATE\s+(?:OR\s+REPLACE\s+)?KIND\s+(name)         the other kinds
\* the words before the optional group, of the group, and after it
CreateWords(kind) ==
    IF kind = "TABLE" THEN <<Chars("CREATE"), Chars("TABLE")>> ELSE <<Chars("CREATE")>>

OptionalWords(kind) ==
    IF kind = "TABLE" THEN <<Chars("IF"), Chars("NOT"), Chars("EXISTS")>>
    ELSE <<Chars("OR"), Chars("REPLACE")>>

KindWords(kind) == IF kind = "TABLE" THEN <<>> ELSE <<Chars(kind)>>

\* offset q when a name starts there, else 0
NameAt(text, q, punct) == IF q # 0 /\ NameRunEnd(text, q, punct) > q THEN q ELSE 0

\* the start of the name, with the optional group taken when that gives a
\* match and left out otherwise; a is the offset after the first words
CreateNameStart(text, a, kind, punct) ==
    IF NameAt(text, WordsThenSpaces(text, WordsThenSpaces(text, a, OptionalWords(kind)),
                                    KindWords(kind)), punct) # 0
    THEN WordsThenSpaces(text, WordsThenSpaces(text, a, OptionalWords(kind)), KindWords(kind))
    ELSE NameAt(text, WordsThenSpaces(text, a, KindWords(kind)), punct)

CreateMatchOf(text, p, nameAt, punct) ==
    IF nameAt = 0 THEN <<>> ELSE <<p, nameAt, NameRunEnd(text, nameAt, punct)>>

\* A match at offset p: <<start, start of the name, end>>, or <<>>.
CreateMatchAt(text, p, kind, punct) ==
    CreateMatchOf(text, p,
                  CreateNameStart(text,
                                  IF WordBoundary(text, p)
                                  THEN WordsThenSpaces(text, p, CreateWords(kind)) ELSE 0,
                                  kind, punct),
                  punct)

\* finditer(text) with the name class given: the matches from offset p on
RECURSIVE FindCreateMatches(_, _, _, _)
CreateMatchesAfter(text, kind, m, punct) ==
    <<m>> \o FindCreateMatches(text, m[3], kind, punct)

CreateMatchesFrom(text, kind, starts, punct) ==
    IF starts = {} THEN <<>>
    ELSE CreateMatchesAfter(text, kind, CreateMatchAt(text, SetMin(starts), kind, punct), punct)

FindCreateMatches(text, p, kind, punct) ==
    CreateMatchesFrom(text, kind,
                      {i \in p..Len(text) : CreateMatchAt(text, i, kind, punct) # <<>>}, punct)

\* TABLE_RE, VIEW_RE, PROC_RE, FUNC_RE .finditer(text)
CreateMatches(text, p, kind) == FindCreateMatches(text, p, kind, NameChars)

\* ------------------------------------------------------------ rule checks
\* The arguments of one _add_issue call.
Call(rule_id, message, pos, evidence, severity, obj_name) ==
    [rule_id |-> rule_id, message |-> message, pos |-> pos, evidence |-> evidence,
     severity |-> severity, object |-> obj_name, recommendation |-> ""]

\* the calls of a detector, made in order on the issues list
RECURSIVE ApplyCalls(_, _, _)
ApplyCalls(iss, text, calls) ==
    IF calls = <<>> THEN iss
    ELSE ApplyCalls(AddIssue(iss, calls[1].rule_id, calls[1].message, text, calls[1].pos,
                             calls[1].evidence, calls[1].severity, calls[1].object,
                             calls[1].recommendation),
                    text, Tail(calls))

EventsOf(text, calls) ==
    [i \in 1..Len(calls) |->
        Event(calls[i].rule_id, calls[i].message, text, calls[i].pos, calls[i].evidence,
              calls[i].severity, calls[i].object, calls[i].recommendation)]

\* concatenation of a sequence of sequences
RECURSIVE Flatten(_)
Flatten(seqs) == IF seqs = <<>> THEN <<>> ELSE seqs[1] \o Flatten(Tail(seqs))

\* IDENTIFIER_RE.fullmatch: ^[A-Z][A-Z0-9_]*$
IdentifierOk(name) ==
    /\ name # <<>>
    /\ name[1] \in Range(UpperLetters)
    /\ \A i \in 2..Len(name) : name[i] \in Range(UpperLetters) \cup Range(Digits) \cup {"_"}

\* len([segment for segment in clean.split("_") if segment])
WordCount(name) ==
    Cardinality({i \in 1..Len(name) : name[i] # "_" /\ (i = 1 \/ name[i - 1] = "_")})

\* most words an identifier may hold
IdentifierMaxWords == 3

\* the checks of _enforce_identifier_format on clean = name.strip()
FormatCalls(clean, pos, obj_desc) ==
    IF clean = <<>> THEN <<>>
    ELSE (IF ~IdentifierOk(clean)
          THEN <<Call("RULE_01_IDENTIFIER_FORMAT", <<obj_desc, "bad format">> \o clean,
                      pos, clean, "ERROR", clean)>>
          ELSE <<>>)
         \o (IF WordCount(clean) > IdentifierMaxWords
             THEN <<Call("RULE_03_IDENTIFIER_WORD_LIMIT", <<obj_desc, "over 3 words">> \o clean,
                         pos, clean, "ERROR", clean)>>
             ELSE <<>>)

EnforceIdentifierFormat(name, pos, obj_desc) == FormatCalls(Strip(name), pos, obj_desc)

\* the call for the first match of CJK_RE in the masked text m
CjkCalls(m, rule_id) ==
    LET hits == {i \in 1..Len(m) : m[i] = CJK}
    IN  IF hits = {} THEN <<>>
        ELSE <<Call(rule_id, <<"non-ASCII character">>, SetMin(hits),
                    <<".", ".", ".", m[SetMin(hits)], ".", ".", ".">>, "ERROR", <<>>)>>

CheckCjk(text) == CjkCalls(MaskCommentsAndStrings(text), "RULE_01_CJK_NAME")

PrefixDesc(kind) ==
    CASE kind = "TABLE" -> "table name" [] kind = "VIEW" -> "view name"
      [] kind = "PROCEDURE" -> "procedure name" [] OTHER -> "function name"

PrefixOf(kind) ==
    CASE kind = "TABLE" -> Chars("T_") [] kind = "VIEW" -> Chars("V_")
      [] kind = "PROCEDURE" -> Chars("P_") [] OTHER -> Chars("F_")

PrefixRule(kind) ==
    CASE kind = "TABLE" -> "RULE_04_PREFIX_TABLE" [] kind = "VIEW" -> "RULE_04_PREFIX_VIEW"
      [] kind = "PROCEDURE" -> "RULE_04_PREFIX_PROC" [] OTHER -> "RULE_04_PREFIX_FUNC"

\* the calls made for one match whose object is called name
NamedPrefixCalls(m, mt, kind, name) ==
    EnforceIdentifierFormat(name, mt[2], PrefixDesc(kind))
    \o (IF ~StartsWith(Upper(name), PrefixOf(kind))
        THEN <<Call(PrefixRule(kind), <<PrefixDesc(kind), "needs prefix">> \o name, mt[1],
                    Slice(m, mt[1], mt[3]), "ERROR", name)>>
        ELSE <<>>)
    \o (IF kind = "TABLE" /\ StartsWith(Upper(name), Chars("TMP_TMP_TMP"))
        THEN <<Call("RULE_14_TMP_TRIPLE", <<"TMP_TMP_TMP prefix">> \o name, mt[1],
                    Slice(m, mt[1], mt[3]), "ERROR", name)>>
        ELSE <<>>)

\* the calls made for one match of TABLE_RE, VIEW_RE, PROC_RE or FUNC_RE
PrefixCalls(m, mt, kind) ==
    NamedPrefixCalls(m, mt, kind, LastIdentifier(Slice(m, mt[2], mt[3])))

PrefixCallsOfMatches(m, ms, kind) ==
    Flatten([i \in 1..Len(ms) |-> PrefixCalls(m, ms[i], kind)])

PrefixCallsOfKind(m, kind) == PrefixCallsOfMatches(m, CreateMatches(m, 1, kind), kind)

NamingPrefixCalls(m) ==
    PrefixCallsOfKind(m, "TABLE") \o PrefixCallsOfKind(m, "VIEW")
    \o PrefixCallsOfKind(m, "PROCEDURE") \o PrefixCallsOfKind(m, "FUNCTION")

\* Rule 4 and rule 14: object prefixes, TMP_TMP_TMP tables
CheckNamingPrefixes(text) == NamingPrefixCalls(MaskCommentsAndStrings(text))

\* the offset k of a find in masked_sql[start_idx + 1:] as an offset of the
\* whole text, or the end of the text
OffsetOrEnd(m, p, k) == IF k = 0 THEN Len(m) + 1 ELSE p + k

\* _find_next_create: the next \bCREATE\b of masked_sql[start_idx + 1:]
FindNextCreate(m, p) ==
    OffsetOrEnd(m, p, FindWord(SubSeq(m, p + 1, Len(m)), 1, Chars("CREATE")))

\* _extract_statement: the span <<start, end>> of sql[start_idx:end_idx]
StatementSpan(m, p) == <<p, FindNextCreate(m, p)>>

ExtractStatement(text, m, p) == Slice(text, p, FindNextCreate(m, p))

\* _find_matching_paren: the offset of the parenthesis that closes the one at
\* the start offset, or 0 (the code's -1)
RECURSIVE MatchingParenFrom(_, _, _)
MatchingParenFrom(m, idx, depth) ==
    LET parens == {i \in idx..Len(m) : m[i] \in {"(", ")"}}
        i == SetMin(parens)
    IN  IF parens = {} THEN 0
        ELSE IF m[i] = "(" THEN MatchingParenFrom(m, i + 1, depth + 1)
        ELSE IF depth - 1 = 0 THEN i
        ELSE MatchingParenFrom(m, i + 1, depth - 1)

FindMatchingParen(m, start) == MatchingParenFrom(m, start, 0)

\* _split_columns: the segments <<text, start offset>> of sql[start:end]
RECURSIVE SplitColumnsFrom(_, _, _, _, _, _)
SplitColumnsFrom(text, m, idx, end, depth, segment_start) ==
    LET marks == {i \in idx..(end - 1) : m[i] \in {"(", ")", ","}}
        i == SetMin(marks)
    IN  IF marks = {}
        THEN (IF segment_start < end
              THEN <<<<Slice(text, segment_start, end), segment_start>>>>
              ELSE <<>>)
        ELSE IF m[i] = "(" THEN SplitColumnsFrom(text, m, i + 1, end, depth + 1, segment_start)
        ELSE IF m[i] = ")"
        THEN SplitColumnsFrom(text, m, i + 1, end,
                              IF depth > 0 THEN depth - 1 ELSE depth, segment_start)
        ELSE IF depth = 0
        THEN <<<<Slice(text, segment_start, i), segment_start>>>>
             \o SplitColumnsFrom(text, m, i + 1, end, depth, i + 1)
        ELSE SplitColumnsFrom(text, m, i + 1, end, depth, segment_start)

\* the same walk over the source itself, where the commas and the
\* parentheses inside comments and strings are still visible
SplitColumnsOfSource(text, m, start, end) == SplitColumnsFrom(text, text, start, end, 0, start)

SplitColumns(text, m, start, end) == SplitColumnsFrom(text, m, start, end, 0, start)

\* "COMMENT" in text.upper()
HasCommentWord(text) == FindSub(Upper(text), 1, Chars("COMMENT")) # 0

\* text.splitlines()[0] of a text that is not empty
FirstLine(text) ==
    LET breaks == {i \in 1..Len(text) : text[i] \in {NL, "\r"}}
    IN  IF breaks = {} THEN text ELSE SubSeq(text, 1, SetMin(breaks) - 1)

\* raw_segment.split(None, 1)[0]
FirstToken(text) ==
    LET blanks == {i \in 1..Len(text) : IsSpace(text[i])}
    IN  IF blanks = {} THEN text ELSE SubSeq(text, 1, SetMin(blanks) - 1)

ConstraintKeywords ==
    {Chars("CONSTRAINT"), Chars("PRIMARY"), Chars("FOREIGN"), Chars("UNIQUE"),
     Chars("CHECK"), Chars("KEY")}

\* the class of the column-name regex: the name class without the dot
IsColumnNameChar(c) == IsWordChar(c) \/ c \in {BQ, DQ, "[", "]", "#", "@", "$"}

RECURSIVE ColumnNameRun(_)
ColumnNameRun(text) ==
    IF text # <<>> /\ IsColumnNameChar(text[1])
    THEN <<text[1]>> \o ColumnNameRun(Tail(text))
    ELSE <<>>

\* One segment of the column list: <<>> when the loop skips it, else
\* <<column name, offset of the name>>
SegmentColumn(seg) ==
    LET raw_segment == Strip(seg[1])
        leading == Len(seg[1]) - Len(LStrip(seg[1]))
        raw_name == ColumnNameRun(LStrip(seg[1]))
    IN  IF raw_segment = <<>> THEN <<>>
        ELSE IF Upper(FirstToken(raw_segment)) \in ConstraintKeywords THEN <<>>
        ELSE IF raw_name = <<>> THEN <<>>
        ELSE <<LastIdentifier(raw_name), seg[2] + leading>>

SegmentCalls(seg, table_name) ==
    LET col == SegmentColumn(seg)
    IN  IF col = <<>> THEN <<>>
        ELSE EnforceIdentifierFormat(col[1], col[2], "column of table")
             \o (IF ~HasCommentWord(Strip(seg[1]))
                 THEN <<Call("RULE_05_COLUMN_COMMENT",
                             <<"column lacks comment">> \o table_name \o <<".">> \o col[1],
                             col[2], Strip(seg[1]), "ERROR",
                             table_name \o <<".">> \o col[1])>>
                 ELSE <<>>)

\* the column segments of the CREATE TABLE matched at mt, or <<>> when the
\* loop body continues before it splits (no parenthesis, or unbalanced)
ColumnSegments(text, m, mt) ==
    LET paren_start == FindSub(m, mt[3], <<"(">>)
        paren_end == IF paren_start = 0 THEN 0 ELSE FindMatchingParen(m, paren_start)
    IN  IF paren_end = 0 THEN <<>>
        ELSE SplitColumns(text, m, paren_start + 1, paren_end)

HasColumnList(m, mt) ==
    /\ FindSub(m, mt[3], <<"(">>) # 0
    /\ FindMatchingParen(m, FindSub(m, mt[3], <<"(">>)) # 0

\* the body of the loop of _check_table_definitions for one TABLE_RE match
TableCalls(text, m, mt) ==
    LET table_name == LastIdentifier(Slice(m, mt[2], mt[3]))
        statement == ExtractStatement(text, m, mt[1])
        segs == ColumnSegments(text, m, mt)
        has_dt_date == \E i \in 1..Len(segs) :
                          /\ SegmentColumn(segs[i]) # <<>>
                          /\ Upper(SegmentColumn(segs[i])[1]) = Chars("DT_DATE")
    IN  (IF ~HasCommentWord(statement)
         THEN <<Call("RULE_05_TABLE_COMMENT", <<"table lacks comment">> \o table_name, mt[1],
                     IF Strip(statement) # <<>> THEN FirstLine(Strip(statement)) ELSE table_name,
                     "ERROR", table_name)>>
         ELSE <<>>)
        \o (IF ~HasColumnList(m, mt) THEN <<>>
            ELSE Flatten([i \in 1..Len(segs) |-> SegmentCalls(segs[i], table_name)])
                 \o (IF EndsWith(Upper(table_name), Chars("_HIS")) /\ ~has_dt_date
                     THEN <<Call("RULE_15_HISTORY_DT_DATE", <<"history table needs DT_DATE">> \o table_name,
                                 mt[2], table_name, "ERROR", table_name)>>
                     ELSE <<>>))

CheckTableDefinitions(text) ==
    LET m == MaskCommentsAndStrings(text)
        ms == CreateMatches(m, 1, "TABLE")
    IN  Flatten([i \in 1..Len(ms) |-> TableCalls(text, m, ms[i])])

\* \bDELETE\s+FROM\s+(name)([^;]*) whose name starts at offset a and ends at e
DeleteMatchOf(m, p, a, e) ==
    IF e = a THEN <<>>
    ELSE <<p, a, e, FirstOr({i \in e..Len(m) : m[i] = ";"}, Len(m) + 1)>>

DeleteMatchFrom(m, p, a, punct) ==
    IF a = 0 THEN <<>> ELSE DeleteMatchOf(m, p, a, NameRunEnd(m, a, punct))

\* \bDELETE\s+FROM\s+(name)([^;]*) at offset p:
\* <<start, start of the name, end of the name, end>>, or <<>>
DeleteMatchAt(m, p, punct) ==
    DeleteMatchFrom(m, p,
                    IF WordBoundary(m, p)
                    THEN WordsThenSpaces(m, p, <<Chars("DELETE"), Chars("FROM")>>)
                    ELSE 0,
                    punct)

\* finditer(m) with the name class given: the matches from offset p on
RECURSIVE FindDeleteMatches(_, _, _)
DeleteMatchesAfter(m, mt, punct) == <<mt>> \o FindDeleteMatches(m, mt[4], punct)

DeleteMatchesFrom(m, starts, punct) ==
    IF starts = {} THEN <<>>
    ELSE DeleteMatchesAfter(m, DeleteMatchAt(m, SetMin(starts), punct), punct)

FindDeleteMatches(m, p, punct) ==
    DeleteMatchesFrom(m, {i \in p..Len(m) : DeleteMatchAt(m, i, punct) # <<>>}, punct)

\* the matches of the rule engine's delete_re
DeleteMatches(m, p) == FindDeleteMatches(m, p, NameChars)

\* the call made for one DELETE match whose tail holds no \bWHERE\b
DeleteCalls(m, mt, rule_id) ==
    IF FindWord(Slice(m, mt[3], mt[4]), 1, Chars("WHERE")) = 0
    THEN <<Call(rule_id, <<"DELETE without WHERE">> \o LastIdentifier(Slice(m, mt[2], mt[3])),
                mt[1], Slice(m, mt[1], mt[4]), "ERROR",
                LastIdentifier(Slice(m, mt[2], mt[3])))>>
    ELSE <<>>

DeleteCallsOfMatches(m, ms, rule_id) ==
    Flatten([i \in 1..Len(ms) |-> DeleteCalls(m, ms[i], rule_id)])

DeleteCallsOn(m, rule_id) == DeleteCallsOfMatches(m, DeleteMatches(m, 1), rule_id)

\* Rule 16: DELETE without WHERE
CheckDeleteFullTable(text) ==
    DeleteCallsOn(MaskBlockComments(text), "RULE_16_DELETE_NO_WHERE")

\* the call for the first lower-case letter of m, located in text
UppercaseCalls(text, hits) ==
    IF hits = {} THEN <<>>
    ELSE <<Call("RULE_06_UPPERCASE", <<"lower-case character">>, SetMin(hits),
                LineSnippet(text, SetMin(hits)), "WARNING", <<>>)>>

LowercaseOffsets(m) == {i \in 1..Len(m) : m[i] \in Range(LowerLetters)}

\* Mutant of CheckUppercase: the raw text is searched, not the masked text.
CheckUppercaseRawText(text) == UppercaseCalls(text, LowercaseOffsets(text))

\* Rule 6: the first lower-case letter outside comments and strings
CheckUppercase(text) == UppercaseCalls(text, LowercaseOffsets(MaskCommentsAndStrings(text)))

\* the offsets, in order, where `lit` stands as a word (finditer of \bLIT\b)
WordOffsets(text, lit) ==
    {i \in 1..Len(text) : MatchLit(text, i, lit) /\ WordBoundary(text, i)
                          /\ WordBoundary(text, i + Len(lit))}

\* a finite set of integers as the sequence of its elements in order
RECURSIVE Ascending(_)
Ascending(S) == IF S = {} THEN <<>> ELSE <<SetMin(S)>> \o Ascending(S \ {SetMin(S)})

\* more SELECT keywords than this in a view body are an issue
ViewMaxSelects == 3

\* the call made for one VIEW_RE match
ViewCalls(text, m, mt) ==
    LET view_name == LastIdentifier(Slice(m, mt[2], mt[3]))
        statement == ExtractStatement(text, m, mt[1])
        body_start == FindSub(Upper(statement), 1, Chars(" AS "))
        body == IF body_start # 0 THEN SubSeq(statement, body_start + 4, Len(statement))
                ELSE statement
        select_count == Cardinality(WordOffsets(MaskCommentsAndStrings(body), Chars("SELECT")))
    IN  IF select_count > ViewMaxSelects
        THEN <<Call("RULE_10_VIEW_NESTING", <<"view nesting">> \o view_name, mt[2],
                    view_name, "ERROR", view_name)>>
        ELSE <<>>

CheckViewNesting(text) ==
    LET m == MaskCommentsAndStrings(text)
        ms == CreateMatches(m, 1, "VIEW")
    IN  Flatten([i \in 1..Len(ms) |-> ViewCalls(text, m, ms[i])])

IsAsciiLetter(c) == c \in Range(LowerLetters) \cup Range(UpperLetters)

IsAsciiWordChar(c) == IsAsciiLetter(c) \/ c \in Range(Digits) \cup {"_"}

AsciiWordRunEnd(text, p) ==
    LET others == {i \in p..Len(text) : ~IsAsciiWordChar(text[i])}
    IN  IF p > Len(text) THEN p
        ELSE IF others = {} THEN Len(text) + 1
        ELSE SetMin(others)

\* \b[A-Z_][A-Z0-9_]*\s*\( (IGNORECASE) at offset p: the offset of its
\* parenthesis, or 0
CallParenAt(text, p) ==
    IF p <= Len(text) /\ WordBoundary(text, p) /\ (IsAsciiLetter(text[p]) \/ text[p] = "_")
    THEN LET q == SkipSpaces(text, AsciiWordRunEnd(text, p + 1))
         IN  IF q <= Len(text) /\ text[q] = "(" THEN q ELSE 0
    ELSE 0

\* positions: the parentheses that open a function call
CallParens(text) == {CallParenAt(text, p) : p \in 1..Len(text)} \ {0}

\* the loop of _max_function_call_depth from offset idx on
RECURSIVE CallDepthFrom(_, _, _, _, _)
CallDepthFrom(text, idx, stack, current_depth, max_depth) ==
    LET parens == {i \in idx..Len(text) : text[i] \in {"(", ")"}}
        i == SetMin(parens)
        is_func == i \in CallParens(text)
        depth == IF is_func THEN current_depth + 1 ELSE current_depth
    IN  IF parens = {} THEN max_depth
        ELSE IF text[i] = "("
        THEN CallDepthFrom(text, i + 1, Append(stack, is_func), depth,
                           IF depth > max_depth THEN depth ELSE max_depth)
        ELSE IF stack # <<>>
        THEN CallDepthFrom(text, i + 1, SubSeq(stack, 1, Len(stack) - 1),
                           IF stack[Len(stack)] /\ current_depth > 0
                           THEN current_depth - 1 ELSE current_depth,
                           max_depth)
        ELSE CallDepthFrom(text, i + 1, stack, current_depth, max_depth)

MaxFunctionCallDepth(text) == CallDepthFrom(text, 1, <<>>, 0, 0)

\* call depth above this is an error, call depth above FunctionWarnDepth a warning
FunctionMaxDepth == 3

FunctionWarnDepth == 2

\* more lines than this in a function are an issue
FunctionMaxLines == 200

\* the calls made for one FUNC_RE match
FunctionCalls(text, m, mt) ==
    LET func_name == LastIdentifier(Slice(m, mt[2], mt[3]))
        statement == ExtractStatement(text, m, mt[1])
        depth == MaxFunctionCallDepth(MaskCommentsAndStrings(statement))
        line_count == Cardinality({i \in 1..Len(statement) : statement[i] = NL}) + 1
    IN  (IF depth > FunctionMaxDepth
         THEN <<Call("RULE_11_FUNCTION_NESTING", <<"call depth over limit">> \o func_name,
                     mt[1], func_name, "ERROR", func_name)>>
         ELSE IF depth > FunctionWarnDepth
         THEN <<Call("RULE_11_FUNCTION_NESTING_WARN", <<"call depth high">> \o func_name,
                     mt[1], func_name, "WARNING", func_name)>>
         ELSE <<>>)
        \o (IF line_count > FunctionMaxLines
            THEN <<Call("RULE_12_FUNCTION_LENGTH", <<"function too long">> \o func_name,
                        mt[1], func_name, "ERROR", func_name)>>
            ELSE <<>>)

CheckFunctionRules(text) ==
    LET m == MaskCommentsAndStrings(text)
        ms == CreateMatches(m, 1, "FUNCTION")
    IN  Flatten([i \in 1..Len(ms) |-> FunctionCalls(text, m, ms[i])])

\* (?<![\s<>=!])=(?!=) : the offsets of the matches in a statement
EqualLeftOffsets(statement) ==
    {i \in 1..Len(statement) :
        /\ statement[i] = "="
        /\ ~(i > 1 /\ (IsSpace(statement[i - 1]) \/ statement[i - 1] \in {"<", ">", "=", "!"}))
        /\ ~(i < Len(statement) /\ statement[i + 1] = "=")}

\* =(?!=)(?![\s=]) : the offsets of the matches in a statement
EqualRightOffsets(statement) ==
    {i \in 1..Len(statement) :
        /\ statement[i] = "="
        /\ ~(i < Len(statement) /\ statement[i + 1] = "=")
        /\ ~(i < Len(statement) /\ (IsSpace(statement[i + 1]) \/ statement[i + 1] = "="))}

EqualCalls(text, offsets, start, rule_id, proc_name) ==
    [i \in 1..Len(offsets) |->
        Call(rule_id, <<"spaces around equal sign">>, start + offsets[i] - 1,
             LineSnippet(text, start + offsets[i] - 1), "WARNING", proc_name)]

\* the calls made for one PROC_RE match
ProcedureCalls(text, m, mt) ==
    LET proc_name == LastIdentifier(Slice(m, mt[2], mt[3]))
        statement == ExtractStatement(text, m, mt[1])
    IN  EqualCalls(text, Ascending(EqualLeftOffsets(statement)), mt[1],
                   "RULE_14_EQUAL_SPACING_LEFT", proc_name)
        \o EqualCalls(text, Ascending(EqualRightOffsets(statement)), mt[1],
                      "RULE_14_EQUAL_SPACING_RIGHT", proc_name)
        \o (IF FindWord(statement, 1, Chars("TRUNCATE")) # 0
            THEN <<Call("RULE_20_PROCEDURE_TRUNCATE", <<"TRUNCATE in procedure">> \o proc_name,
                        mt[1], proc_name, "ERROR", proc_name)>>
            ELSE <<>>)

CheckProcedureRules(text) ==
    LET m == MaskCommentsAndStrings(text)
        ms == CreateMatches(m, 1, "PROCEDURE")
    IN  Flatten([i \in 1..Len(ms) |-> ProcedureCalls(text, m, ms[i])])

\* _find_statement_terminator: the offset after the next semicolon, or after the text
FindStatementTerminator(m, start) ==
    FirstOr({i \in start..Len(m) : m[i] = ";"}, Len(m)) + 1

DmlSegmentsOfStarts(m, starts) ==
    [i \in 1..Len(starts) |-> <<starts[i], FindStatementTerminator(m, starts[i])>>]

DmlSegmentsOn(m) ==
    DmlSegmentsOfStarts(m, Ascending(WordOffsets(m, Chars("INSERT"))
                                     \cup WordOffsets(m, Chars("UPDATE"))
                                     \cup WordOffsets(m, Chars("DELETE"))))

\* _iter_dml_segments: the spans <<start, end>> of the DML sub-statements
IterDmlSegments(statement) == DmlSegmentsOn(MaskCommentsAndStrings(statement))

HasCommentMarker(text) == FindSub(text, 1, <<"-", "-">>) # 0 \/ FindSub(text, 1, <<"/", "*">>) # 0

\* stripped_prefix[stripped_prefix.rfind("\n") + 1:]
LastLineOf(stripped_prefix) ==
    SubSeq(stripped_prefix,
           SetMax({0} \cup {i \in 1..Len(stripped_prefix) : stripped_prefix[i] = NL}) + 1,
           Len(stripped_prefix))

\* re.search(r"/\*.*\*/\s*$", stripped_prefix, flags=re.DOTALL) on a right-stripped prefix
EndsWithBlockComment(stripped_prefix) ==
    /\ Len(stripped_prefix) >= 4
    /\ stripped_prefix[Len(stripped_prefix) - 1] = "*"
    /\ stripped_prefix[Len(stripped_prefix)] = "/"
    /\ \E i \in 1..(Len(stripped_prefix) - 3) :
            stripped_prefix[i] = "/" /\ stripped_prefix[i + 1] = "*"

PrefixHasComment(stripped_prefix) ==
    /\ stripped_prefix # <<>>
    /\ \/ FindSub(LastLineOf(stripped_prefix), 1, <<"-", "-">>) # 0
       \/ EndsWithBlockComment(stripped_prefix)

SuffixStartsComment(suffix) ==
    StartsWith(suffix, <<"-", "-">>) \/ StartsWith(suffix, <<"/", "*">>)

HasAdjacentComment(statement, start, end) ==
    \/ HasCommentMarker(Slice(statement, start, end))
    \/ PrefixHasComment(RStrip(SubSeq(statement, 1, start - 1)))
    \/ SuffixStartsComment(LStrip(SubSeq(statement, end, Len(statement))))

DmlCallsOfSegments(statement, segs, pos, label, rule_id, obj_name) ==
    Flatten([i \in 1..Len(segs) |->
        IF ~HasAdjacentComment(statement, segs[i][1], segs[i][2])
        THEN <<Call(rule_id, <<label, "DML without comment">> \o obj_name,
                    pos + segs[i][1] - 1,
                    Strip(Slice(statement, segs[i][1], segs[i][2])), "ERROR", obj_name)>>
        ELSE <<>>])

DmlCallsOfStatement(statement, pos, label, rule_id, obj_name) ==
    DmlCallsOfSegments(statement, IterDmlSegments(statement), pos, label, rule_id, obj_name)

\* the calls made for one PROC_RE or FUNC_RE match
DmlCommentCalls(text, m, mt, label, rule_id) ==
    DmlCallsOfStatement(ExtractStatement(text, m, mt[1]), mt[1], label, rule_id,
                        LastIdentifier(Slice(m, mt[2], mt[3])))

DmlCallsOfMatches(text, m, ms, label, rule_id) ==
    Flatten([i \in 1..Len(ms) |-> DmlCommentCalls(text, m, ms[i], label, rule_id)])

ProcedureCommentCalls(text, m) ==
    DmlCallsOfMatches(text, m, CreateMatches(m, 1, "PROCEDURE"),
                      "procedure", "RULE_05_PROC_COMMENT")
    \o DmlCallsOfMatches(text, m, CreateMatches(m, 1, "FUNCTION"),
                         "function", "RULE_05_FUNC_COMMENT")

CheckProcedureComments(text) == ProcedureCommentCalls(text, MaskCommentsAndStrings(text))

\* \bCREATE\s+(?:OR\s+REPLACE\s+)?TRIGGER\b at offset p
TriggerMatchAt(m, p) ==
    LET a == IF WordBoundary(m, p) THEN WordsThenSpaces(m, p, <<Chars("CREATE")>>) ELSE 0
        b == IF a = 0 THEN 0 ELSE WordsThenSpaces(m, a, <<Chars("OR"), Chars("REPLACE")>>)
        TriggerAt(q) == q # 0 /\ MatchLit(m, q, Chars("TRIGGER")) /\ WordBoundary(m, q + 7)
    IN  TriggerAt(b) \/ TriggerAt(a)

CheckNoTrigger(text) ==
    LET m == MaskCommentsAndStrings(text)
        starts == Ascending({p \in 1..Len(m) : TriggerMatchAt(m, p)})
    IN  [i \in 1..Len(starts) |->
            Call("RULE_13_NO_TRIGGER", <<"trigger not allowed">>, starts[i],
                 LineSnippet(text, starts[i]), "ERROR", <<>>)]

\* All detectors of main, in the order main calls them.
EngineCalls(text) ==
    CheckCjk(text) \o CheckNamingPrefixes(text) \o CheckTableDefinitions(text)
    \o CheckDeleteFullTable(text) \o CheckUppercase(text) \o CheckViewNesting(text)
    \o CheckFunctionRules(text) \o CheckProcedureRules(text)
    \o CheckProcedureComments(text) \o CheckNoTrigger(text)

\* by_rule[key] = by_rule.get(key, 0) + 1
CountRule(by_rule, key) ==
    IF key \in DOMAIN by_rule THEN [by_rule EXCEPT ![key] = @ + 1]
    ELSE by_rule @@ (key :> 1)

RECURSIVE CountRules(_, _)
CountRules(by_rule, rule_ids) ==
    IF rule_ids = <<>> THEN by_rule
    ELSE CountRules(CountRule(by_rule, rule_ids[1]), Tail(rule_ids))

\* Mutant of ByRuleOfRecords: one count per record (the legacy rule_id).
RECURSIVE ByRuleOfRecordsPerLine(_, _)
ByRuleOfRecordsPerLine(by_rule, recs) ==
    IF recs = <<>> THEN by_rule
    ELSE ByRuleOfRecordsPerLine(CountRule(by_rule, recs[1].rule_id), Tail(recs))

\* the by_rule loop of main: every rule id of every record is counted
RECURSIVE ByRuleOfRecords(_, _)
ByRuleOfRecords(by_rule, recs) ==
    IF recs = <<>> THEN by_rule
    ELSE ByRuleOfRecords(CountRules(by_rule, recs[1].rule_ids), Tail(recs))

\* total_count of main: the lengths of the records' issues arrays, added up
RECURSIVE TotalCount(_)
TotalCount(recs) ==
    IF recs = <<>> THEN 0 ELSE Len(recs[1].issues) + TotalCount(Tail(recs))

EmptyCounts == [key \in {} |-> 0]

\* the payload of main
EnginePayload(iss) ==
    IF iss = <<>>
    THEN [summary |-> [message |-> "clean", file_extension |-> ".sql", total_issues |-> 0,
                       analysis_source |-> "static_analyzer"],
          issues |-> <<>>,
          analysis_source |-> "static_analyzer",
          metadata |-> [analysis_source |-> "static_analyzer", engine |-> "sql_rule_engine"]]
    ELSE [summary |-> [total_issues |-> TotalCount(iss),
                       by_rule |-> ByRuleOfRecords(EmptyCounts, iss),
                       file_extension |-> ".sql",
                       analysis_source |-> "static_analyzer"],
          issues |-> iss,
          analysis_source |-> "static_analyzer",
          metadata |-> [analysis_source |-> "static_analyzer", engine |-> "sql_rule_engine"]]

\* --------------------------------------------------- sqlStaticAnalyzer.py
\* evidence is cut to this many characters
EvidenceMaxLen == 300

\* _add_issue of the analyser: one flat record per call
AnalyserAddIssue(iss, rule_id, message, text, pos, evidence, severity, obj_name) ==
    LET lc == IdxToLineCol(text, pos)
        snippet == LineSnippet(text, pos)
        ev == IF evidence # <<>> THEN evidence ELSE snippet
    IN  Append(iss, [rule_id |-> rule_id, severity |-> severity, message |-> message,
                     object |-> obj_name, line |-> lc[1], column |-> lc[2],
                     snippet |-> snippet,
                     evidence |-> SubSeq(ev, 1, IF Len(ev) > EvidenceMaxLen
                                               THEN EvidenceMaxLen ELSE Len(ev))])

RECURSIVE AnalyserApplyCalls(_, _, _)
AnalyserApplyCalls(iss, text, calls) ==
    IF calls = <<>> THEN iss
    ELSE AnalyserApplyCalls(AnalyserAddIssue(iss, calls[1].rule_id, calls[1].message, text,
                                             calls[1].pos, calls[1].evidence,
                                             calls[1].severity, calls[1].object),
                            text, Tail(calls))

AnalyserCheckCjk(text) == CjkCalls(MaskCommentsAndStrings(text), "R1_CJK_NAME")

\* the name class of the analyser's regexes: backtick, brackets, \w, dot, $, #, @
\* (the two adjacent double quotes of the pattern end one string literal and
\* begin the next, so the class holds no double quote)
AnalyserNameChars == {BQ, "[", "]", ".", "$", "#", "@"}

AnalyserCreateMatches(text, p, kind) == FindCreateMatches(text, p, kind, AnalyserNameChars)

AnalyserPrefixRule(kind) ==
    CASE kind = "TABLE" -> "R2_PREFIX_TABLE" [] kind = "VIEW" -> "R2_PREFIX_VIEW"
      [] kind = "PROCEDURE" -> "R2_PREFIX_PROC" [] OTHER -> "R2_PREFIX_FUNC"

\* the calls made for one match (evidence is the matched text) that names `name`
AnalyserNamedPrefixCalls(pos, evidence, kind, name) ==
    (IF ~StartsWith(Upper(name), PrefixOf(kind))
     THEN <<Call(AnalyserPrefixRule(kind), <<"needs prefix">> \o name, pos,
                 evidence, "ERROR", name)>>
     ELSE <<>>)
    \o (IF kind = "TABLE" /\ StartsWith(Upper(name), Chars("TMP_TMP_TMP"))
        THEN <<Call("R3_TMP_TRIPLE", <<"TMP_TMP_TMP prefix">> \o name, pos,
                    evidence, "ERROR", name)>>
        ELSE <<>>)

\* the calls made for one match of one of the four CREATE regexes
AnalyserPrefixCalls(text, mt, kind) ==
    AnalyserNamedPrefixCalls(mt[1], Slice(text, mt[1], mt[3]), kind,
                             LastIdentifier(Slice(text, mt[2], mt[3])))

AnalyserPrefixCallsOfMatches(text, ms, kind) ==
    Flatten([i \in 1..Len(ms) |-> AnalyserPrefixCalls(text, ms[i], kind)])

AnalyserPrefixCallsOfKind(text, kind) ==
    AnalyserPrefixCallsOfMatches(text, AnalyserCreateMatches(text, 1, kind), kind)

\* the analyser matches the raw text
AnalyserCheckNamingPrefixes(text) ==
    AnalyserPrefixCallsOfKind(text, "TABLE") \o AnalyserPrefixCallsOfKind(text, "VIEW")
    \o AnalyserPrefixCallsOfKind(text, "PROCEDURE") \o AnalyserPrefixCallsOfKind(text, "FUNCTION")

AnalyserDeleteMatches(text, p) == FindDeleteMatches(text, p, AnalyserNameChars)

AnalyserCheckDeleteFullTable(text) ==
    DeleteCallsOfMatches(text, AnalyserDeleteMatches(text, 1), "R4_DELETE_NO_WHERE")

\* the keywords that end a FROM clause
ClauseEndWords == {Chars("WHERE"), Chars("GROUP"), Chars("ORDER"), Chars("HAVING"), Chars("LIMIT")}

\* first offset of \bWHERE\b|\bGROUP\b|\bORDER\b|\bHAVING\b|\bLIMIT\b|; in text, or 0
ClauseEndIn(text) ==
    FirstOr({i \in 1..Len(text) :
                \/ text[i] = ";"
                \/ \E w \in ClauseEndWords :
                       MatchLit(text, i, w) /\ WordBoundary(text, i)
                       /\ WordBoundary(text, i + Len(w))}, 0)

\* the end of the clause that starts at `start`, given the offset of its end
\* within sql[start:] (0 when nothing ends it)
ClauseEndFrom(text, start, rel) == IF rel # 0 THEN start + rel - 1 ELSE Len(text) + 1

ClauseSlice(text, start, end) == <<start, end, Slice(text, start, end)>>

ClauseAfter(text, start) ==
    ClauseSlice(text, start,
                ClauseEndFrom(text, start, ClauseEndIn(SubSeq(text, start, Len(text)))))

SlicesOfFroms(text, froms) == [i \in 1..Len(froms) |-> ClauseAfter(text, froms[i] + 4)]

\* _slice_from_clauses: <<start, end, fragment>> for every \bFROM\b
SliceFromClauses(text) == SlicesOfFroms(text, Ascending(WordOffsets(text, Chars("FROM"))))

\* the end (exclusive) of the lazy segment of the JOIN regex that opens at offset p
JoinSegmentEnd(text, p) ==
    SetMin({q \in p..(Len(text) + 1) :
               \/ q = Len(text) + 1
               \/ q = Len(text) /\ text[q] = NL
               \/ text[q] = ";"
               \/ \E w \in ClauseEndWords \cup {Chars("JOIN")} :
                      MatchLit(text, q, w) /\ WordBoundary(text, q)
                      /\ WordBoundary(text, q + Len(w))})

JoinHasCondition(segment) ==
    \E w \in {Chars("ON"), Chars("USING"), Chars("NATURAL"), Chars("CROSS")} :
        FindWord(segment, 1, w) # 0

FromCommaCalls(slices) ==
    Flatten([i \in 1..Len(slices) |->
        IF FindSub(slices[i][3], 1, <<",">>) # 0
           /\ FindWord(slices[i][3], 1, Chars("JOIN")) = 0
        THEN <<Call("R5_FROM_COMMA", <<"implicit join">>, slices[i][1],
                    Strip(slices[i][3]), "ERROR", <<>>)>>
        ELSE <<>>])

JoinCallOf(pos, segment) ==
    IF ~JoinHasCondition(segment)
    THEN <<Call("R5_JOIN_NO_ON", <<"JOIN without ON">>, pos,
                Strip(Chars("JOIN") \o segment), "ERROR", <<>>)>>
    ELSE <<>>

JoinCalls(text, joins) ==
    Flatten([i \in 1..Len(joins) |->
        JoinCallOf(joins[i], Slice(text, joins[i] + 4, JoinSegmentEnd(text, joins[i] + 4)))])

AnalyserCheckCartesian(text) ==
    FromCommaCalls(SliceFromClauses(text))
    \o JoinCalls(text, Ascending(WordOffsets(text, Chars("JOIN"))))

\* All detectors of analyse, in the order analyse calls them.
AnalyserCalls(text) ==
    AnalyserCheckCjk(text) \o AnalyserCheckNamingPrefixes(text)
    \o AnalyserCheckDeleteFullTable(text) \o AnalyserCheckCartesian(text)

\* by_rule of analyse: one count per flat record
RECURSIVE AnalyserByRule(_, _)
AnalyserByRule(by_rule, recs) ==
    IF recs = <<>> THEN by_rule
    ELSE AnalyserByRule(CountRule(by_rule, recs[1].rule_id), Tail(recs))

\* the result of analyse; the clean summary is the bare message, held here
\* in a record of one field
AnalyserPayload(iss) ==
    IF iss = <<>>
    THEN [summary |-> [message |-> "clean"], issues |-> <<>>]
    ELSE [summary |-> [total_issues |-> Len(iss), by_rule |-> AnalyserByRule(EmptyCounts, iss)],
          issues |-> iss]

\* ------------------------------------------------- the masker on its own
MaskAlphabet == {"/", "*", "-", SQ, DQ, NL, "a"}

MaskInputs == UNION {[1..n -> MaskAlphabet] : n \in 0..MaskLen}

InitMask ==
    /\ sql \in MaskInputs
    /\ pc = "mask"
    /\ masked = <<>>
    /\ issues = <<>>
    /\ events = <<>>
    /\ report = <<>>
    /\ variant = "masker"

DoMask ==
    /\ pc = "mask"
    /\ masked' = MaskCommentsAndStrings(sql)
    /\ pc' = "masked"
    /\ UNCHANGED <<sql, issues, events, report, variant>>

NextMask == DoMask

SpecMask == InitMask /\ [][NextMask]_vars

\* --------------------------------------------- the aggregator on its own
\* A two-line text; the offsets 1 and 2 lie on line 1, offset 4 on line 2.
AggText == <<"A", "B", NL, "C">>

AggOffsets == {1, 2, 4}

\* rule id, severity, object name, recommendation
AggRules == {<<"RULE_A", "ERROR", "T_A", "FIX">>, <<"RULE_B", "WARNING", "", "">>,
             <<"RULE_C", "ERROR", "T_C", "">>}

InitAgg ==
    /\ sql = AggText
    /\ pc = "aggregate"
    /\ masked = <<>>
    /\ issues = <<>>
    /\ events = <<>>
    /\ report = <<>>
    /\ variant = "aggregator"

\* one call of _add_issue(issues, rule_id, message, sql, pos_idx, evidence, ...)
CallAddIssue ==
    /\ pc = "aggregate"
    /\ Len(events) < MaxCalls
    /\ \E r \in AggRules, pos \in AggOffsets, ev \in {<<>>, <<"E">>} :
          /\ issues' = AddIssue(issues, r[1], <<r[1], r[3]>>, sql, pos, ev, r[2], r[3], r[4])
          /\ events' = Append(events, Event(r[1], <<r[1], r[3]>>, sql, pos, ev, r[2], r[3], r[4]))
    /\ UNCHANGED <<sql, pc, masked, report, variant>>

NextAgg == CallAddIssue

SpecAgg == InitAgg /\ [][NextAgg]_vars

\* ------------------------------------------- the two analyses, end to end
\* A script is up to MaxStatements of these statements, one per line.
MaxStatements == 2

MinimalScript ==
    Chars("CREATE TABLE T_USER (ID_USER VARCHAR(10) COMMENT 'id') COMMENT 'users';")

Statements ==
    {MinimalScript,
     Chars("DELETE FROM T_USER;"),
     Chars("DELETE FROM T_USER WHERE ID_USER = 1;"),
     Chars("DELETE FROM T_USER -- WHERE"),
     Chars("-- DELETE FROM T_USER"),
     Chars("DELETE FROM T_USER /* WHERE */;"),
     Chars("SELECT * FROM T_A, T_B WHERE T_A.ID = T_B.ID;"),
     Chars("SELECT * FROM T_A JOIN T_B ON T_A.ID = T_B.ID;"),
     Chars("create table a_b (c int);"),
     Chars("CREATE PROCEDURE P_A AS X = 1; -- a=b"),
     Chars("CREATE VIEW V_A AS SELECT 1;"),
     Chars("CREATE FUNCTION F_A RETURN F(G(H(1)));"),
     Chars("CREATE TRIGGER X;")}

RECURSIVE JoinLines(_)
JoinLines(parts) ==
    IF parts = <<>> THEN <<>>
    ELSE IF Len(parts) = 1 THEN parts[1]
    ELSE parts[1] \o <<NL>> \o JoinLines(Tail(parts))

Scripts == {JoinLines(parts) : parts \in UNION {[1..n -> Statements] : n \in 0..MaxStatements}}

\* main(sql_query) or analyse(sql_query) is entered with a script
Init ==
    /\ sql \in Scripts
    /\ variant \in {"engine", "analyser"}
    /\ pc = "cjk"
    /\ masked = <<>>
    /\ issues = <<>>
    /\ events = <<>>
    /\ report = <<>>

\* one detector call of main: its _add_issue calls go through the aggregator
EngineStep(from, to, calls) ==
    /\ variant = "engine"
    /\ pc = from
    /\ issues' = ApplyCalls(issues, sql, calls)
    /\ events' = events \o EventsOf(sql, calls)
    /\ pc' = to
    /\ UNCHANGED <<sql, masked, report, variant>>

RunCheckCjk == EngineStep("cjk", "naming", CheckCjk(sql))

RunCheckNamingPrefixes == EngineStep("naming", "tabledef", CheckNamingPrefixes(sql))

RunCheckTableDefinitions == EngineStep("tabledef", "delete", CheckTableDefinitions(sql))

RunCheckDeleteFullTable == EngineStep("delete", "uppercase", CheckDeleteFullTable(sql))

RunCheckUppercase == EngineStep("uppercase", "view", CheckUppercase(sql))

RunCheckViewNesting == EngineStep("view", "function", CheckViewNesting(sql))

RunCheckFunctionRules == EngineStep("function", "procedure", CheckFunctionRules(sql))

RunCheckProcedureRules == EngineStep("procedure", "proccomment", CheckProcedureRules(sql))

RunCheckProcedureComments == EngineStep("proccomment", "trigger", CheckProcedureComments(sql))

RunCheckNoTrigger == EngineStep("trigger", "report", CheckNoTrigger(sql))

\* main builds the payload
BuildPayload ==
    /\ variant = "engine"
    /\ pc = "report"
    /\ report' = EnginePayload(issues)
    /\ pc' = "done"
    /\ UNCHANGED <<sql, masked, issues, events, variant>>

\* one detector call of analyse: every _add_issue call appends a flat record
AnalyserStep(from, to, calls) ==
    /\ variant = "analyser"
    /\ pc = from
    /\ issues' = AnalyserApplyCalls(issues, sql, calls)
    /\ events' = events \o EventsOf(sql, calls)
    /\ pc' = to
    /\ UNCHANGED <<sql, masked, report, variant>>

AnalyseCheckCjk == AnalyserStep("cjk", "naming", AnalyserCheckCjk(sql))

AnalyseCheckNamingPrefixes == AnalyserStep("naming", "delete", AnalyserCheckNamingPrefixes(sql))

AnalyseCheckDeleteFullTable == AnalyserStep("delete", "cartesian", AnalyserCheckDeleteFullTable(sql))

AnalyseCheckCartesian == AnalyserStep("cartesian", "report", AnalyserCheckCartesian(sql))

\* analyse builds its result
AnalyseReturn ==
    /\ variant = "analyser"
    /\ pc = "report"
    /\ report' = AnalyserPayload(issues)
    /\ pc' = "done"
    /\ UNCHANGED <<sql, masked, issues, events, variant>>

Next ==
    \/ RunCheckCjk
    \/ RunCheckNamingPrefixes
    \/ RunCheckTableDefinitions
    \/ RunCheckDeleteFullTable
    \/ RunCheckUppercase
    \/ RunCheckViewNesting
    \/ RunCheckFunctionRules
    \/ RunCheckProcedureRules
    \/ RunCheckProcedureComments
    \/ RunCheckNoTrigger
    \/ BuildPayload
    \/ AnalyseCheckCjk
    \/ AnalyseCheckNamingPrefixes
    \/ AnalyseCheckDeleteFullTable
    \/ AnalyseCheckCartesian
    \/ AnalyseReturn

Spec == Init /\ [][Next]_vars

\* ------------------------------------- several calls in one process
\* The process makes up to MaxRuns calls of main or analyse, one after
\* another, on any of these inputs; `report` is the history of the calls,
\* one entry <<input, entry point, result>> per call, and `issues` is the
\* issues list of the latest call.
MaxRuns == 3

CallInputs ==
    {<<>>,
     MinimalScript,
     Chars("DELETE FROM T_USER;"),
     Chars("create table a_b (c int);"),
     Chars("SELECT * FROM T_A, T_B;")}

\* Mutant of FreshIssues: the list of the previous call is kept.
KeptIssues(previous) == previous

\* issues = [] at the start of a call: nothing of an earlier call is kept
FreshIssues(previous) == <<>>

InitRuns ==
    /\ sql = <<>>
    /\ variant = "engine"
    /\ pc = "idle"
    /\ masked = <<>>
    /\ issues = <<>>
    /\ events = <<>>
    /\ report = <<>>

\* the state after a call that worked on `text` and ended with the list `iss`
Returned(entry, text, calls, iss, payload) ==
    /\ sql' = text
    /\ variant' = entry
    /\ issues' = iss
    /\ events' = EventsOf(text, calls)
    /\ report' = Append(report, <<text, entry, payload>>)
    /\ pc' = "idle"
    /\ UNCHANGED masked

MainReturns(text, iss) == Returned("engine", text, EngineCalls(text), iss, EnginePayload(iss))

\* one whole call of main
CallMain ==
    /\ Len(report) < MaxRuns
    /\ \E text \in CallInputs :
          MainReturns(text, ApplyCalls(FreshIssues(issues), text, EngineCalls(text)))

AnalyseReturns(text, iss) ==
    Returned("analyser", text, AnalyserCalls(text), iss, AnalyserPayload(iss))

\* one whole call of analyse
CallAnalyse ==
    /\ Len(report) < MaxRuns
    /\ \E text \in CallInputs :
          AnalyseReturns(text, AnalyserApplyCalls(FreshIssues(issues), text, AnalyserCalls(text)))

NextRuns == CallMain \/ CallAnalyse

SpecRuns == InitRuns /\ [][NextRuns]_vars

\* ------------------------------------- operations that can raise
\* The operations of the two files that raise on some operands, each with
\* the guard the code puts before it.  A call raises when an operand
\* reaches such an operation past its guard.

\* statement.strip() is truthy (line 369): splitlines()[0] is taken
StatementHasText(stripped) == stripped # <<>>

\* splitlines()[0] raises IndexError on the empty text
FirstLineRaises(stripped) == StatementHasText(stripped) /\ stripped = <<>>

\* Mutant of SegmentIsBlank: blank segments are not skipped.
SegmentNeverBlank(raw_segment) == FALSE

\* if not raw_segment: continue (lines 392-393)
SegmentIsBlank(raw_segment) == raw_segment = <<>>

\* if not name_match: continue (lines 401-402)
NoNameMatch(raw_name) == raw_name = <<>>

\* one column segment: split(None, 1)[0] raises IndexError on a blank
\* segment, name_match.group(0) raises AttributeError when nothing matched
SegmentFault(raw_segment, raw_name) ==
    IF SegmentIsBlank(raw_segment) THEN FALSE
    ELSE IF raw_segment = <<>> THEN TRUE
    ELSE IF Upper(FirstToken(raw_segment)) \in ConstraintKeywords THEN FALSE
    ELSE IF NoNameMatch(raw_name) THEN FALSE
    ELSE raw_name = <<>>

SegmentRaises(seg) == SegmentFault(Strip(seg[1]), ColumnNameRun(LStrip(seg[1])))

SegmentsRaise(segs) == \E i \in 1..Len(segs) : SegmentRaises(segs[i])

TableRaises(text, m, mt) ==
    \/ /\ ~HasCommentWord(ExtractStatement(text, m, mt[1]))
       /\ FirstLineRaises(Strip(ExtractStatement(text, m, mt[1])))
    \/ /\ HasColumnList(m, mt)
       /\ SegmentsRaise(ColumnSegments(text, m, mt))

TablesRaise(text, m, ms) == \E i \in 1..Len(ms) : TableRaises(text, m, ms[i])

CheckTableDefinitionsRaises(text) ==
    TablesRaise(text, MaskCommentsAndStrings(text),
                CreateMatches(MaskCommentsAndStrings(text), 1, "TABLE"))

\* the length of `stack` of _max_function_call_depth before offset upto
RECURSIVE StackSizeFrom(_, _, _, _)
StackSizeAt(m, i, upto, size) ==
    IF i = 0 THEN size
    ELSE IF m[i] = "(" THEN StackSizeFrom(m, i + 1, upto, size + 1)
    ELSE StackSizeFrom(m, i + 1, upto, IF size > 0 THEN size - 1 ELSE size)

StackSizeFrom(m, idx, upto, size) ==
    StackSizeAt(m, FirstOr({i \in idx..(upto - 1) : m[i] \in {"(", ")"}}, 0), upto, size)

\* if stack: (line 491)
StackHasEntry(size) == size > 0

\* stack.pop() raises IndexError on the empty list
PopRaises(size) == StackHasEntry(size) /\ size = 0

DepthScanRaises(m) ==
    \E i \in 1..Len(m) : m[i] = ")" /\ PopRaises(StackSizeFrom(m, 1, i, 0))

FunctionRaises(text, m, mt) ==
    DepthScanRaises(MaskCommentsAndStrings(ExtractStatement(text, m, mt[1])))

FunctionsRaise(text, m, ms) == \E i \in 1..Len(ms) : FunctionRaises(text, m, ms[i])

CheckFunctionRulesRaises(text) ==
    FunctionsRaise(text, MaskCommentsAndStrings(text),
                   CreateMatches(MaskCommentsAndStrings(text), 1, "FUNCTION"))

\* main raises when one of its detectors does
MainRaises(text) == CheckTableDefinitionsRaises(text) \/ CheckFunctionRulesRaises(text)

\* ... if end_match else len(sql) (line 222)
EndMatchFound(rel) == rel # 0

\* end_match.start() raises AttributeError when nothing matched
EndMatchRaises(rel) == EndMatchFound(rel) /\ rel = 0

AnalyseRaises(text) ==
    \E f \in WordOffsets(text, Chars("FROM")) :
        EndMatchRaises(ClauseEndIn(SubSeq(text, f + 4, Len(text))))

\* The inputs: up to MaxPieces of these pieces, one after another.
MaxPieces == 3

Pieces ==
    {Chars("CREATE TABLE T_A ("), Chars("CREATE TABLE T_B_HIS "), Chars("CREATE FUNCTION F_A "),
     Chars(", "), <<")">>, Chars("F("), <<SQ>>, Chars("/*"), Chars("FROM A, B ")}

RECURSIVE Concat(_)
Concat(parts) == IF parts = <<>> THEN <<>> ELSE parts[1] \o Concat(Tail(parts))

PieceInputs == {Concat(parts) : parts \in UNION {[1..n -> Pieces] : n \in 0..MaxPieces}}

InitTotal ==
    /\ sql \in PieceInputs
    /\ variant \in {"engine", "analyser"}
    /\ pc = "called"
    /\ masked = <<>>
    /\ issues = <<>>
    /\ events = <<>>
    /\ report = <<>>

\* the call ends: it raised, or it returned the payload of the issues `iss`
Outcome(entry, raised, calls, iss, payload) ==
    /\ variant = entry
    /\ pc = "called"
    /\ pc' = IF raised THEN "raised" ELSE "returned"
    /\ events' = IF raised THEN <<>> ELSE EventsOf(sql, calls)
    /\ issues' = IF raised THEN <<>> ELSE iss
    /\ report' = IF raised THEN <<>> ELSE payload
    /\ UNCHANGED <<sql, masked, variant>>

MainOutcome(raised, iss) == Outcome("engine", raised, EngineCalls(sql), iss, EnginePayload(iss))

\* one whole call of main on the input
MainEnds == MainOutcome(MainRaises(sql), ApplyCalls(<<>>, sql, EngineCalls(sql)))

AnalyseOutcome(raised, iss) ==
    Outcome("analyser", raised, AnalyserCalls(sql), iss, AnalyserPayload(iss))

\* one whole call of analyse on the input
AnalyseEnds == AnalyseOutcome(AnalyseRaises(sql), AnalyserApplyCalls(<<>>, sql, AnalyserCalls(sql)))

NextTotal == MainEnds \/ AnalyseEnds

SpecTotal == InitTotal /\ [][NextTotal]_vars

\* ------------------------------------- the procedure rules on their own
\* The inputs: one procedure whose body is any text of up to MaxBody
\* characters over BodyAlphabet.
MaxBody == 4

BodyAlphabet == {"=", "<", "!", SP, "a"}

ProcedureHead == Chars("CREATE PROCEDURE P_A AS ")

ProcedureInputs ==
    {ProcedureHead \o body : body \in UNION {[1..n -> BodyAlphabet] : n \in 0..MaxBody}}

InitProcedure ==
    /\ sql \in ProcedureInputs
    /\ variant = "engine"
    /\ pc = "procedure"
    /\ masked = <<>>
    /\ issues = <<>>
    /\ events = <<>>
    /\ report = <<>>

\* _check_procedure_rules(sql, issues) on an empty issues list
ProcedureRulesRun(calls) ==
    /\ pc = "procedure"
    /\ issues' = ApplyCalls(issues, sql, calls)
    /\ events' = EventsOf(sql, calls)
    /\ pc' = "checked"
    /\ UNCHANGED <<sql, masked, report, variant>>

RunProcedureRulesAlone == ProcedureRulesRun(CheckProcedureRules(sql))

NextProcedure == RunProcedureRulesAlone

SpecProcedure == InitProcedure /\ [][NextProcedure]_vars

\* --------------------------------------------- _split_columns on its own
\* The inputs: any text of up to MaxList characters over ListAlphabet, its
\* masked form, and any offsets start <= end into it.  report holds the
\* offsets of the call and, after it, the segments it returned.
MaxList == 4

ListAlphabet == {"(", ")", ",", SQ, "a"}

ListInputs == UNION {[1..n -> ListAlphabet] : n \in 0..MaxList}

InitSplit ==
    /\ sql \in ListInputs
    /\ masked = MaskCommentsAndStrings(sql)
    /\ variant = "engine"
    /\ pc = "split"
    /\ issues = <<>>
    /\ events = <<>>
    /\ \E start_idx \in 1..(MaxList + 1), end_idx \in 1..(MaxList + 1) :
          /\ start_idx <= end_idx
          /\ end_idx <= Len(sql) + 1
          /\ report = [start_idx |-> start_idx, end_idx |-> end_idx, segments |-> <<>>]

\* segments = _split_columns(sql, masked_sql, start_idx, end_idx)
SplitReturns(segments) ==
    /\ pc = "split"
    /\ report' = [report EXCEPT !.segments = segments]
    /\ pc' = "returned"
    /\ UNCHANGED <<sql, masked, issues, events, variant>>

CallSplitColumns == SplitReturns(SplitColumns(sql, masked, report.start_idx, report.end_idx))

NextSplit == CallSplitColumns

SpecSplit == InitSplit /\ [][NextSplit]_vars

\* ------------------------------------------------ reading of the claims
\* What a left-to-right SQL lexer makes of each offset of a text:
\*   "code"   outside every comment and string
\*   "delim"  a delimiter of a terminated comment or string
\*   "in"     inside a terminated block comment, a line comment or a
\*            terminated string ('' and "" are escaped quotes there)
\*   "uopen"  the opening delimiter of an unterminated comment or string
\*   "uin"    after such an opening delimiter, up to the end of the text
Rep(tag, n) == [i \in 1..n |-> tag]

RECURSIVE RefStringEnd(_, _, _)
RefStringEnd(text, q, i) ==
    LET quotes == {j \in i..Len(text) : text[j] = q}
        j == SetMin(quotes)
    IN  IF quotes = {} THEN 0
        ELSE IF j + 1 <= Len(text) /\ text[j + 1] = q THEN RefStringEnd(text, q, j + 2)
        ELSE j + 1

\* the lexer at offset p, where a comment or a string opens
RECURSIVE RefLexFrom(_, _)
RefLexAt(text, p) ==
    IF p + 1 <= Len(text) /\ text[p] = "/" /\ text[p + 1] = "*"
    THEN LET closers == {j \in (p + 2)..(Len(text) - 1) :
                            text[j] = "*" /\ text[j + 1] = "/"}
         IN  IF closers = {}
             THEN Rep("uopen", 2) \o Rep("uin", Len(text) - p - 1)
             ELSE Rep("delim", 2) \o Rep("in", SetMin(closers) - p - 2)
                  \o Rep("delim", 2) \o RefLexFrom(text, SetMin(closers) + 2)
    ELSE IF p + 1 <= Len(text) /\ text[p] = "-" /\ text[p + 1] = "-"
    THEN LET nls == {j \in (p + 2)..Len(text) : text[j] = NL}
             end == IF nls = {} THEN Len(text) + 1 ELSE SetMin(nls)
         IN  Rep("delim", 2) \o Rep("in", end - p - 2) \o RefLexFrom(text, end)
    ELSE LET end == RefStringEnd(text, text[p], p + 1)
         IN  IF end = 0
             THEN Rep("uopen", 1) \o Rep("uin", Len(text) - p)
             ELSE Rep("delim", 1) \o Rep("in", end - p - 2)
                  \o Rep("delim", 1) \o RefLexFrom(text, end)

RefLexFrom(text, p) ==
    LET opens == {i \in p..Len(text) :
                     \/ text[i] \in {SQ, DQ}
                     \/ i + 1 <= Len(text) /\ text[i] = "/" /\ text[i + 1] = "*"
                     \/ i + 1 <= Len(text) /\ text[i] = "-" /\ text[i + 1] = "-"}
    IN  IF opens = {} THEN Rep("code", Len(text) - p + 1)
        ELSE Rep("code", SetMin(opens) - p) \o RefLexAt(text, SetMin(opens))

RefLex(text) == RefLexFrom(text, 1)

\* ---------------------------------------------------------------- claims
\* C1: mask(s) has the length of s, and mask(s)[i] is a newline exactly
\* when s[i] is a newline.
C1_LengthAndNewlinesKept ==
    pc = "masked" =>
        /\ Len(masked) = Len(sql)
        /\ \A i \in 1..Len(sql) : (masked[i] = NL) <=> (sql[i] = NL)

\* C1 witness: a masked span that holds a newline between two blanked
\* characters.
C1_Witness ==
    /\ pc = "masked"
    /\ \E i, j, k \in 1..Len(sql) :
          /\ i < j /\ j < k
          /\ sql[j] = NL
          /\ sql[i] # SP /\ masked[i] = SP
          /\ sql[k] # SP /\ masked[k] = SP

\* C2 (as claimed): every non-newline character inside a block comment, a
\* line comment or a quoted string is a space in mask(s).
C2_InsideIsBlank ==
    pc = "masked" =>
        \A i \in 1..Len(sql) :
            (RefLex(sql)[i] = "in" /\ sql[i] # NL) => masked[i] = SP

\* C3 (as claimed): from the opening delimiter of an unterminated block
\* comment or string to the end of the text, every non-newline character is
\* a space in mask(s).
C3_UnterminatedMaskedToEnd ==
    pc = "masked" =>
        \A i \in 1..Len(sql) :
            (RefLex(sql)[i] \in {"uopen", "uin"} /\ sql[i] # NL) => masked[i] = SP

\* The issues handed to _add_issue so far for source line ln, in order.
RECURSIVE EventsOfLine(_, _)
EventsOfLine(evs, ln) ==
    IF evs = <<>> THEN <<>>
    ELSE (IF evs[1].line = ln THEN <<evs[1]>> ELSE <<>>) \o EventsOfLine(Tail(evs), ln)

\* C5: the issues list holds at most one record per source line; in every
\* record rule_id, severity, message and evidence are the first elements of
\* rule_ids, severity_levels, issues and evidence_list, which are the values
\* of the first issue detected on that line; n issues on a line give one
\* record whose rule_ids has length n.
C5_OneRecordPerLineFirstIssueKept ==
    /\ \A i, j \in 1..Len(issues) : issues[i].line = issues[j].line => i = j
    /\ \A k \in 1..Len(issues) :
          LET r == issues[k]
              first == EventsOfLine(events, r.line)[1]
          IN  /\ r.rule_id = r.rule_ids[1] /\ r.rule_id = first.rule_id
              /\ r.severity = r.severity_levels[1] /\ r.severity = first.severity
              /\ r.message = r.issues[1] /\ r.message = first.message
              /\ r.evidence = r.evidence_list[1] /\ r.evidence = first.evidence
              /\ Len(r.rule_ids) = Len(EventsOfLine(events, r.line))
    /\ \A e \in 1..Len(events) : \E k \in 1..Len(issues) : issues[k].line = events[e].line

\* C5 witness: two issues with different rule, severity, message and
\* evidence on one line, held by one record.
C5_Witness ==
    \E k \in 1..Len(issues) :
        /\ Len(issues[k].rule_ids) = 2
        /\ issues[k].rule_ids[2] # issues[k].rule_ids[1]
        /\ issues[k].severity_levels[2] # issues[k].severity_levels[1]
        /\ issues[k].issues[2] # issues[k].issues[1]
        /\ issues[k].evidence_list[2] # issues[k].evidence_list[1]

ArraysOf(r) == <<r.rule_ids, r.severity_levels, r.issues, r.column,
                 r.evidence_list, r.recommendation>>

\* every array of new is the matching array of old plus one element
ExtendedByOne(old, new) ==
    /\ \A a \in 1..6 : /\ Len(ArraysOf(new)[a]) = Len(ArraysOf(old)[a]) + 1
                       /\ SubSeq(ArraysOf(new)[a], 1, Len(ArraysOf(old)[a])) = ArraysOf(old)[a]
    /\ new.line = old.line

C6_ArraysAligned ==
    \A k \in 1..Len(issues) :
        \A a \in 1..6 :
            Len(ArraysOf(issues[k])[a]) = Len(EventsOfLine(events, issues[k].line))

C6_CallStep ==
    \/ /\ Len(issues') = Len(issues) + 1
       /\ SubSeq(issues', 1, Len(issues)) = issues
       /\ \A a \in 1..6 : Len(ArraysOf(issues'[Len(issues')])[a]) = 1
       /\ \A k \in 1..Len(issues) : issues[k].line # issues'[Len(issues')].line
    \/ /\ Len(issues') = Len(issues)
       /\ \E k \in 1..Len(issues) :
             /\ ExtendedByOne(issues[k], issues'[k])
             /\ \A m \in 1..Len(issues) : m # k => issues'[m] = issues[m]

\* C6: in every record the arrays rule_ids, severity_levels, issues, column,
\* evidence_list and recommendation have one length, the number of issues
\* added for the record's line; each call creates exactly one record (line
\* not seen before) or appends exactly one element to every array of the
\* line's record, and removes, reorders or rewrites nothing else.
C6_ParallelArraysAppendOnly == [] C6_ArraysAligned /\ [][C6_CallStep]_vars

\* C6 witness: a record that took two issues, at different columns, beside
\* another record.
C6_Witness ==
    /\ Len(issues) = 2
    /\ \E k \in 1..2 : Len(issues[k].recommendation) = 2 /\ Len(issues[k].column) = 2
                       /\ issues[k].column[1] # issues[k].column[2]

\* The text with every non-newline character inside a terminated comment or
\* string replaced by a space; the delimiters stay.
Blank(text) ==
    [i \in 1..Len(text) |->
        IF RefLex(text)[i] = "in" /\ text[i] # NL THEN SP ELSE text[i]]

\* the pairs <<line, rule id>> of a list of aggregated records
RuleIdsByLine(recs) ==
    UNION {{<<recs[k].line, recs[k].rule_ids[j]>> : j \in 1..Len(recs[k].rule_ids)} :
              k \in 1..Len(recs)}

\* C4 (as claimed): main reports the same rule ids on the same lines for a
\* script and for the script whose comment and string contents are blanked;
\* text inside a comment or a string neither creates nor suppresses an issue.
C4_ReportIndependentOfCommentContent ==
    (variant = "engine" /\ pc = "done") =>
        RuleIdsByLine(report.issues)
            = RuleIdsByLine(EnginePayload(ApplyCalls(<<>>, Blank(sql),
                                                     EngineCalls(Blank(sql)))).issues)

CountOf(seq, x) == Cardinality({i \in 1..Len(seq) : seq[i] = x})

RECURSIVE SumOf(_)
SumOf(ns) == IF ns = <<>> THEN 0 ELSE ns[1] + SumOf(Tail(ns))

RECURSIVE SumOver(_, _)
SumOver(f, keys) ==
    IF keys = {} THEN 0
    ELSE LET k == CHOOSE k \in keys : TRUE IN f[k] + SumOver(f, keys \ {k})

\* C7: in a report that is not clean, by_rule[r] is the number of issues the
\* detectors emitted with rule id r, which for aggregated records is the
\* number of times r stands in the records' rule_ids arrays; total_issues is
\* the sum of the lengths of the records' issues arrays; the by_rule counts
\* add up to total_issues, the number of issues emitted.
C7_CountsAreIssueCounts ==
    (pc = "done" /\ "by_rule" \in DOMAIN report.summary) =>
        LET by_rule == report.summary.by_rule
            total == report.summary.total_issues
            recs == report.issues
        IN  /\ DOMAIN by_rule = {events[e].rule_id : e \in 1..Len(events)}
            /\ \A r \in DOMAIN by_rule :
                  by_rule[r] = Cardinality({e \in 1..Len(events) : events[e].rule_id = r})
            /\ variant = "engine" =>
                  /\ \A r \in DOMAIN by_rule :
                        by_rule[r] = SumOf([k \in 1..Len(recs) |-> CountOf(recs[k].rule_ids, r)])
                  /\ total = SumOf([k \in 1..Len(recs) |-> Len(recs[k].issues)])
            /\ SumOver(by_rule, DOMAIN by_rule) = total
            /\ total = Len(events)

\* C7 witness: a report of main where one record holds the same rule id
\* twice, so that the counts differ from the number of records.
C7_Witness ==
    /\ pc = "done" /\ variant = "engine"
    /\ "by_rule" \in DOMAIN report.summary
    /\ report.summary.total_issues > Len(report.issues)
    /\ \E k \in 1..Len(report.issues) :
          \E r \in DOMAIN report.summary.by_rule :
              CountOf(report.issues[k].rule_ids, r) = 2 /\ report.summary.by_rule[r] >= 2

IsCleanReport(rep) == "message" \in DOMAIN rep.summary /\ rep.summary.message = "clean"

\* C8: the summary is the clean indicator and the issues list is empty
\* exactly when no detector emitted an issue; on the minimal well-formed
\* script no detector emits one.
C8_CleanIffNoIssueEmitted ==
    pc = "done" =>
        /\ (IsCleanReport(report) /\ report.issues = <<>>) <=> (events = <<>>)
        /\ IsCleanReport(report) \/ report.issues # <<>>
        /\ sql = MinimalScript => (events = <<>> /\ IsCleanReport(report))

\* C8 witness: main has reported on the minimal well-formed script.
C8_Witness ==
    /\ pc = "done" /\ variant = "engine"
    /\ sql = MinimalScript
    /\ IsCleanReport(report) /\ report.issues = <<>>

\* The text as the lexer leaves it for the parser: comments and strings, with
\* their delimiters, are blank.
RefCode(text) ==
    [i \in 1..Len(text) |->
        IF RefLex(text)[i] = "code" \/ text[i] = NL THEN text[i] ELSE SP]

\* <<offset, table>> of every DELETE FROM statement of the code whose text up
\* to the next semicolon holds no WHERE keyword
ExpectedDeletes(text) ==
    LET code == RefCode(text)
        ms == DeleteMatches(code, 1)
    IN  Flatten([i \in 1..Len(ms) |->
            IF FindWord(Slice(code, ms[i][3], ms[i][4]), 1, Chars("WHERE")) = 0
            THEN <<<<ms[i][1], LastIdentifier(Slice(code, ms[i][2], ms[i][3]))>>>>
            ELSE <<>>])

IsDeleteEvent(e) == e.rule_id \in {"RULE_16_DELETE_NO_WHERE", "R4_DELETE_NO_WHERE"}

\* C9 (as claimed): the delete-without-filter issues are those of the DELETE
\* FROM statements with no WHERE keyword before the next semicolon, one each,
\* with the table as the object.
C9_DeleteIssueIffNoWhere ==
    pc = "done" =>
        LET found == SelectSeq(events, IsDeleteEvent)
        IN  [i \in 1..Len(found) |-> <<found[i].pos, found[i].object>>] = ExpectedDeletes(sql)

\* the end (exclusive) of the FROM clause that opens at offset start
ClauseStop(text, start) ==
    SetMin({q \in start..(Len(text) + 1) :
               \/ q = Len(text) + 1
               \/ text[q] = ";"
               \/ \E w \in ClauseEndWords :
                      MatchLit(text, q, w) /\ WordBoundary(text, q)
                      /\ WordBoundary(text, q + Len(w))})

\* the offsets of the FROM clauses that hold a comma and no JOIN keyword
CommaFromClauses(text) ==
    {f + 4 : f \in {g \in WordOffsets(text, Chars("FROM")) :
                       LET clause == Slice(text, g + 4, ClauseStop(text, g + 4))
                       IN  /\ \E i \in 1..Len(clause) : clause[i] = ","
                           /\ WordOffsets(clause, Chars("JOIN")) = {}}}

\* C10 (as claimed): the report holds exactly one implicit-cross-join issue
\* for each FROM clause with a comma and no JOIN keyword, and none for any
\* other FROM clause.
C10_OneIssuePerCommaFromClause ==
    pc = "done" =>
        LET found == {e \in 1..Len(events) : events[e].rule_id = "R5_FROM_COMMA"}
        IN  /\ {events[e].pos : e \in found} = CommaFromClauses(sql)
            /\ Cardinality(found) = Cardinality(CommaFromClauses(sql))

\* C11: two calls of the same entry point on the same input return the same
\* report, whatever calls were made before them or between them.
C11_SameInputSameReport ==
    \A i, j \in 1..Len(report) :
        (report[i][1] = report[j][1] /\ report[i][2] = report[j][2])
            => report[i][3] = report[j][3]

\* C11 witness: the first and the third call are calls of main on the same
\* input with a report that is not clean, and the call between them was on
\* another input.
C11_Witness ==
    /\ Len(report) = 3
    /\ report[1][2] = "engine" /\ report[3][2] = "engine"
    /\ report[1][1] = report[3][1]
    /\ report[2][1] # report[1][1]
    /\ report[1][3].issues # <<>> /\ report[2][3].issues # <<>>
    /\ report[3][3] = report[1][3]

\* C12: no call on a string raises; every call ends with a report that has a
\* summary and an issues list, after all of its detectors ran.
C12_AlwaysReturnsReport ==
    /\ pc # "raised"
    /\ pc = "returned" =>
          /\ {"summary", "issues"} \subseteq DOMAIN report
          /\ events = EventsOf(sql, IF variant = "engine" THEN EngineCalls(sql)
                                    ELSE AnalyserCalls(sql))

\* C12 witness: main returned on a CREATE TABLE whose column list holds only
\* blank segments, and on a function body that closes a parenthesis it never
\* opened.
C12_Witness ==
    /\ pc = "returned" /\ variant = "engine"
    /\ sql \in {Chars("CREATE TABLE T_A (, )"), Chars("CREATE FUNCTION F_A )F(")}

\* the stages of main, in the order of the claim
Stages ==
    <<"cjk", "naming", "tabledef", "delete", "uppercase", "view", "function", "procedure",
      "proccomment", "trigger", "report">>

\* the issues the detector of stage k emits
StageCalls(k, text) ==
    CASE k = 1 -> CheckCjk(text)
      [] k = 2 -> CheckNamingPrefixes(text)
      [] k = 3 -> CheckTableDefinitions(text)
      [] k = 4 -> CheckDeleteFullTable(text)
      [] k = 5 -> CheckUppercase(text)
      [] k = 6 -> CheckViewNesting(text)
      [] k = 7 -> CheckFunctionRules(text)
      [] k = 8 -> CheckProcedureRules(text)
      [] k = 9 -> CheckProcedureComments(text)
      [] k = 10 -> CheckNoTrigger(text)
      [] OTHER -> <<>>

\* offset in the stream of the first issue of line ln
FirstEventOfLine(evs, ln) == SetMin({e \in 1..Len(evs) : evs[e].line = ln})

\* every parallel array of a record lists the issues of its line in the order
\* of the stream, and the records stand in the order of their first issues
C13_RecordsFollowStream ==
    variant = "engine" =>
        /\ \A k \in 1..Len(issues) :
              /\ issues[k].rule_ids
                    = [e \in 1..Len(EventsOfLine(events, issues[k].line)) |->
                          EventsOfLine(events, issues[k].line)[e].rule_id]
              /\ issues[k].issues
                    = [e \in 1..Len(EventsOfLine(events, issues[k].line)) |->
                          EventsOfLine(events, issues[k].line)[e].message]
              /\ issues[k].column
                    = [e \in 1..Len(EventsOfLine(events, issues[k].line)) |->
                          EventsOfLine(events, issues[k].line)[e].col]
              /\ issues[k].severity_levels
                    = [e \in 1..Len(EventsOfLine(events, issues[k].line)) |->
                          EventsOfLine(events, issues[k].line)[e].severity]
              /\ issues[k].evidence_list
                    = [e \in 1..Len(EventsOfLine(events, issues[k].line)) |->
                          EventsOfLine(events, issues[k].line)[e].evidence]
        /\ \A k, l \in 1..Len(issues) :
              k < l => FirstEventOfLine(events, issues[k].line)
                          < FirstEventOfLine(events, issues[l].line)
        /\ pc = "done" => report.issues = issues

\* a step of main runs the detector of the next stage and puts its issues at
\* the end of the stream
C13_StageStep ==
    variant = "engine" =>
        \E k \in 1..Len(Stages) :
            /\ pc = Stages[k]
            /\ pc' = IF k = Len(Stages) THEN "done" ELSE Stages[k + 1]
            /\ events' = events \o EventsOf(sql, StageCalls(k, sql))

\* C13: the detectors run in the order CJK, naming, table definition, delete,
\* uppercase, view, function, procedure, procedure comment, trigger, and their
\* issues reach the aggregator in that order; within a record the parallel
\* arrays keep that order, and the records stand in the order in which their
\* lines received their first issue.
C13_DetectorOrderKept == [] C13_RecordsFollowStream /\ [][C13_StageStep]_vars

\* C13 witness: the first record is of a later line than the second, and a
\* record holds issues of three detectors in the order of the detectors.
C13_Witness ==
    /\ pc = "done" /\ variant = "engine"
    /\ Len(report.issues) = 2
    /\ report.issues[1].line > report.issues[2].line
    /\ report.issues[1].rule_ids
          = <<"RULE_01_IDENTIFIER_FORMAT", "RULE_04_PREFIX_TABLE", "RULE_05_TABLE_COMMENT",
              "RULE_01_IDENTIFIER_FORMAT", "RULE_05_COLUMN_COMMENT", "RULE_06_UPPERCASE">>

\* the column names a CREATE TABLE match declares in its column list (none
\* when the statement has no column list)
DeclaredColumns(text, m, mt) ==
    {Upper(SegmentColumn(ColumnSegments(text, m, mt)[i])[1]) :
        i \in {j \in 1..Len(ColumnSegments(text, m, mt)) :
                  SegmentColumn(ColumnSegments(text, m, mt)[j]) # <<>>}}

\* <<offset of the name, name>> of the _HIS tables without a DT_DATE column
HistoryTablesWithoutDate(text, m, ms) ==
    {<<ms[i][2], LastIdentifier(Slice(m, ms[i][2], ms[i][3]))>> :
        i \in {j \in 1..Len(ms) :
                  /\ EndsWith(Upper(LastIdentifier(Slice(m, ms[j][2], ms[j][3]))), Chars("_HIS"))
                  /\ Chars("DT_DATE") \notin DeclaredColumns(text, m, ms[j])}}

\* C14 (as claimed): the history-table issues of a report are those of the
\* CREATE TABLE statements whose name ends in _HIS and that declare no
\* DT_DATE column, a statement without a column list or with unbalanced
\* parentheses included.
C14_HistoryTableNeedsDtDate ==
    (pc = "returned" /\ variant = "engine") =>
        {<<events[e].pos, events[e].object>> :
            e \in {f \in 1..Len(events) : events[f].rule_id = "RULE_15_HISTORY_DT_DATE"}}
          = HistoryTablesWithoutDate(sql, MaskCommentsAndStrings(sql),
                                     CreateMatches(MaskCommentsAndStrings(sql), 1, "TABLE"))

\* the '=' at offset i is part of <=, >=, != or ==
InComparison(text, i) ==
    \/ i > 1 /\ text[i - 1] \in {"<", ">", "!", "="}
    \/ i < Len(text) /\ text[i + 1] = "="

\* the '=' at offset i has whitespace on both sides
Spaced(text, i) ==
    /\ i > 1 /\ IsSpace(text[i - 1])
    /\ i < Len(text) /\ IsSpace(text[i + 1])

\* C15 (as claimed): the equal-sign spacing warnings stand at the '=' signs
\* that lack whitespace on a side and are no part of <=, >=, != or ==.
C15_EqualSpacingWarning ==
    pc = "checked" =>
        {events[e].pos : e \in {f \in 1..Len(events) :
                                  events[f].rule_id \in {"RULE_14_EQUAL_SPACING_LEFT",
                                                         "RULE_14_EQUAL_SPACING_RIGHT"}}}
          = {i \in 1..Len(sql) : sql[i] = "=" /\ ~InComparison(sql, i) /\ ~Spaced(sql, i)}

\* ---------------------------------------------------------------- C16
\* the parenthesis depth just before offset i, counted from the start of the
\* list; a closing parenthesis with nothing open leaves it at 0
RECURSIVE DepthBefore(_, _, _)
DepthBefore(m, start, i) ==
    IF i <= start THEN 0
    ELSE IF m[i - 1] = "(" THEN DepthBefore(m, start, i - 1) + 1
    ELSE IF m[i - 1] = ")" /\ DepthBefore(m, start, i - 1) > 0
    THEN DepthBefore(m, start, i - 1) - 1
    ELSE DepthBefore(m, start, i - 1)

\* the commas of the list at depth 0
TopCommas(m, start, end) ==
    {i \in start..(end - 1) : m[i] = "," /\ DepthBefore(m, start, i) = 0}

\* the k-th slice delimited by the cuts: from just after cut k - 1 (or the
\* start) up to cut k (or the end)
SliceStart(cuts, start, k) == IF k = 1 THEN start ELSE cuts[k - 1] + 1

SliceEnd(cuts, end, k) == IF k > Len(cuts) THEN end ELSE cuts[k]

SlicesOfCuts(text, cuts, start, end, n) ==
    [k \in 1..n |-> <<Slice(text, SliceStart(cuts, start, k), SliceEnd(cuts, end, k)),
                      SliceStart(cuts, start, k)>>]

\* every slice, the one after the last cut included
AllSlices(text, m, start, end) ==
    SlicesOfCuts(text, Ascending(TopCommas(m, start, end)), start, end,
                 Cardinality(TopCommas(m, start, end)) + 1)

\* the slices without the last one when nothing follows the last cut
SlicesButEmptyLast(text, m, start, end) ==
    SlicesOfCuts(text, Ascending(TopCommas(m, start, end)), start, end,
                 IF AllSlices(text, m, start, end)
                      [Cardinality(TopCommas(m, start, end)) + 1][2] < end
                 THEN Cardinality(TopCommas(m, start, end)) + 1
                 ELSE Cardinality(TopCommas(m, start, end)))

\* C16 (as claimed): _split_columns returns the slices delimited by the
\* depth-0 commas of the masked text, the one after the last comma always
\* included, so there is one segment more than there are depth-0 commas.
C16_SegmentsAreCommasPlusOne ==
    pc = "returned" =>
        /\ report.segments = AllSlices(sql, masked, report.start_idx, report.end_idx)
        /\ Len(report.segments)
             = Cardinality(TopCommas(masked, report.start_idx, report.end_idx)) + 1

\* C16 (amended): _split_columns returns the slices delimited by the depth-0
\* commas of the masked text, each with the offset of its first character;
\* the slice after the last depth-0 comma is included unless it is empty, so
\* there are as many segments as depth-0 commas, plus one when text follows
\* the last of them.
C16_SegmentsDropEmptyLast ==
    pc = "returned" =>
        /\ report.segments
             = SlicesButEmptyLast(sql, masked, report.start_idx, report.end_idx)
        /\ \A k \in 1..Len(report.segments) :
              \A j \in 1..Len(report.segments[k][1]) :
                 ~(masked[report.segments[k][2] + j - 1] = ","
                   /\ DepthBefore(masked, report.start_idx, report.segments[k][2] + j - 1) = 0)

\* a list with a nested comma, a depth-0 comma and nothing after it
C16_Witness ==
    /\ pc = "returned"
    /\ sql = Chars("(,),")
    /\ report.start_idx = 1 /\ report.end_idx = 5
    /\ report.segments = <<<<Chars("(,)"), 1>>>>

\* ---------------------------------------------------------------- C17
\* C17 (as claimed): masking changes no character that a left-to-right scan
\* finds outside the comments and the quoted strings.
C17_CodeIsUntouched ==
    pc = "masked" =>
        \A i \in 1..Len(sql) : RefLex(sql)[i] = "code" => masked[i] = sql[i]

\* ---------------------------------------------------------------- C18
\* offset pos lies in the statement of the CREATE TABLE matched at mt: from
\* its CREATE keyword to just before the next CREATE keyword or the end
InStatement(m, mt, pos) == mt[1] <= pos /\ pos < FindNextCreate(m, mt[1])

\* a column-comment finding stands inside the statement of a table it names
ColumnFindingInStatement(m, ms, ev) ==
    \E i \in 1..Len(ms) :
        /\ StartsWith(ev.object, LastIdentifier(Slice(m, ms[i][2], ms[i][3])) \o <<".">>)
        /\ InStatement(m, ms[i], ev.pos)

\* a history-table finding, reported at the name of its table, was decided
\* on a parenthesized list that closes inside the statement of that table
HistoryFindingFromOwnList(m, ms, ev) ==
    \A i \in 1..Len(ms) :
        ms[i][2] = ev.pos =>
            InStatement(m, ms[i], FindMatchingParen(m, FindSub(m, ms[i][3], <<"(">>)))

\* C18 (as claimed): the column findings of a CREATE TABLE statement come
\* from column segments inside that statement, and the parenthesized list of
\* a later statement is never analysed as the column list of an earlier one.
C18_ColumnChecksStayInStatement ==
    (pc = "returned" /\ variant = "engine") =>
        \A e \in 1..Len(events) :
            /\ events[e].rule_id = "RULE_05_COLUMN_COMMENT" =>
                  ColumnFindingInStatement(MaskCommentsAndStrings(sql),
                                           CreateMatches(MaskCommentsAndStrings(sql), 1, "TABLE"),
                                           events[e])
            /\ events[e].rule_id = "RULE_15_HISTORY_DT_DATE" =>
                  HistoryFindingFromOwnList(MaskCommentsAndStrings(sql),
                                            CreateMatches(MaskCommentsAndStrings(sql), 1, "TABLE"),
                                            events[e])

====
